---- MODULE Spec2Model ----
(***************************************************************************)
(* A model of the hooks engine of the function-component renderer:        *)
(* the hook list, the per-hook update queue (merge / skip / rebase),       *)
(* the effect list, the render-phase loop of renderWithHooks, and the      *)
(* tear-free read protocol for mutable sources.                            *)
(*                                                                         *)
(* Objects the code links by pointer (updates, update queues, effects,     *)
(* effect queues) live in heaps: a heap is a sequence and a pointer is an  *)
(* index into it, 0 being null.  A fiber's hook list is a sequence of      *)
(* hooks, `next` being the following position; the cursors currentHook     *)
(* and workInProgressHook are positions, 0 being null.                     *)
(***************************************************************************)
EXTENDS Integers, Sequences, FiniteSets, TLC

\* ------------------------------------------------------------------ bounds
MaxDispatch == 2
MaxRenders == 2
MaxLoopRenders == 1
MaxDepsRenders == 1
MaxBailRenders == 1
MaxDeps == 2
MaxMutations == 2
MaxReads == 2
MaxPasses == 2
MaxOrderRenders == 1
MaxOutsideCalls == 1
MaxSelfUpdates == 2
MaxThrowRenders == 0
MaxPhaseRenders == 1
MaxOutsideRenders == 1
MaxMutableRenders == 1
MaxEagerRenders == 1
MaxRerenderRenders == 1
MaxChangeRenders == 1
MaxChanges == 2
MaxCursor == 3
MaxAbortRenders == 1
MaxAbortDispatch == 1
MaxEffectRenders == 1
MaxInputs == 2
MaxTakeRenders == 2
MaxCellRenders == 1
MaxCellCalls == 2
MaxLazyCalls == 3
MaxSettles == 2

\* --------------------------------------------------------------- constants
RE_RENDER_LIMIT == 25

\* The status of a lazy payload.
Uninitialized == -1
Pending == 0
Resolved == 1
Rejected == 2

\* Fiber flags (ReactFiberFlags) and hook effect tags (ReactHookEffectTags),
\* as sets of flag names.
UpdateEffect == {"Update"}
PassiveEffect == {"Passive"}
HookHasEffect == {"HasEffect"}
HookLayout == {"Layout"}
HookPassive == {"Passive"}

\* ------------------------------------------------------------------- lanes
\* A lane bitmask is the set of its bits.
LaneBits == {1, 2}
NoLane == {}
NoLanes == {}
isSubsetOfLanes(set, subset) == subset \subseteq set
mergeLanes(a, b) == a \cup b
removeLanes(set, subset) == set \ subset

\* Object.is on the model's values.
is(x, y) == x = y

\* ------------------------------------------------------------------ values
\* A state value is a sequence of the actions that built it; NullState is
\* null.  The component's reducers: R1 ignores action 0, R2 appends any
\* action, so the two differ and R1 has no-op actions.  R3 appends too but
\* throws on action 0.  basicStateReducer is the reducer of a state hook,
\* whose action is the new state, or an updater function it calls: the one
\* updater of the model is () => { throw error }.
NullState == <<>>
InitialState == <<0>>
NoReducer == "null"
Reducers == {"R1", "R2"}
basicStateReducer == "basicStateReducer"
Reduce(reducer, state, action) ==
  IF reducer = basicStateReducer THEN action
  ELSE IF reducer = "R1" /\ action = 0 THEN state ELSE Append(state, action)

Thrower(error) == <<"throw", error>>
IsThrower(action) == Len(action) = 2 /\ action[1] = "throw"

RECURSIVE Fold(_, _, _)
\* The call reducer(state, action) throws.
Throws(reducer, state, action) ==
  \/ reducer = "R3" /\ action = 0
  \/ reducer = basicStateReducer /\ IsThrower(action)

\* What the call throws when it throws.
Thrown(reducer, action) ==
  IF reducer = basicStateReducer THEN action[2] ELSE "ReducerError"

\* Applying the actions in order, some call of the reducer throws.
RECURSIVE FoldThrows(_, _, _)
FoldThrows(reducer, state, actions) ==
  IF actions = <<>> THEN FALSE
  ELSE \/ Throws(reducer, state, Head(actions))
       \/ FoldThrows(reducer, Reduce(reducer, state, Head(actions)),
                     Tail(actions))

\* What the first of those calls to throw throws.
RECURSIVE FoldThrown(_, _, _)
FoldThrown(reducer, state, actions) ==
  IF Throws(reducer, state, Head(actions))
  THEN Thrown(reducer, Head(actions))
  ELSE FoldThrown(reducer, Reduce(reducer, state, Head(actions)),
                  Tail(actions))

Fold(reducer, state, actions) ==
  IF actions = <<>> THEN state
  ELSE Fold(reducer, Reduce(reducer, state, Head(actions)), Tail(actions))

\* ------------------------------------------------------------------- state
VARIABLES
  heap,                     \* Update objects
  queues,                   \* UpdateQueue objects
  effects,                  \* Effect objects
  fqs,                      \* FunctionComponentUpdateQueue objects
  fibers,                   \* the fiber pair "A" / "B"
  current,                  \* the committed fiber, "none" before the first commit
  renderLanes,
  currentlyRenderingFiber,
  currentHook,
  workInProgressHook,
  didScheduleRenderPhaseUpdate,
  didScheduleRenderPhaseUpdateDuringThisPass,
  ReactCurrentDispatcher,
  numberOfReRenders,
  children,                 \* what renderWithHooks returns
  err,                      \* the invariant() that threw, "none" otherwise
  pc,                       \* where the work loop / renderWithHooks stands
  component,                \* the hook primitives the component calls, in order
  trace,                    \* history of the run, read by the properties only
  source,                   \* the MutableSource and the store behind it
  root,                     \* the FiberRoot: mutableReadLanes
  sourceTrace,              \* the reads of the pass (properties only)
  payload,                  \* the payload object of a lazy component
  lazyTrace,                \* what happened to the payload (properties only)
  shadow                    \* the run without its discarded attempts (properties only)

vars == <<heap, queues, effects, fqs, fibers, current, renderLanes,
          currentlyRenderingFiber, currentHook, workInProgressHook,
          didScheduleRenderPhaseUpdate,
          didScheduleRenderPhaseUpdateDuringThisPass, ReactCurrentDispatcher,
          numberOfReRenders, children, err, pc, component, trace, shadow,
          source, root, sourceTrace, payload, lazyTrace>>

sourceVars == <<source, root, sourceTrace, payload, lazyTrace>>

\* The module-level state and the heaps, as one record the functions of the
\* source are applied to.
World ==
  [heap |-> heap, queues |-> queues, effects |-> effects, fqs |-> fqs,
   fibers |-> fibers, renderLanes |-> renderLanes,
   currentlyRenderingFiber |-> currentlyRenderingFiber,
   currentHook |-> currentHook, workInProgressHook |-> workInProgressHook,
   didScheduleRenderPhaseUpdate |-> didScheduleRenderPhaseUpdate,
   didScheduleRenderPhaseUpdateDuringThisPass |->
     didScheduleRenderPhaseUpdateDuringThisPass,
   err |-> err, trace |-> trace, source |-> source, root |-> root,
   env |-> component.env, burst |-> component.burst]

Install(w) ==
  /\ heap' = w.heap
  /\ queues' = w.queues
  /\ effects' = w.effects
  /\ fqs' = w.fqs
  /\ fibers' = w.fibers
  /\ renderLanes' = w.renderLanes
  /\ currentlyRenderingFiber' = w.currentlyRenderingFiber
  /\ currentHook' = w.currentHook
  /\ workInProgressHook' = w.workInProgressHook
  /\ didScheduleRenderPhaseUpdate' = w.didScheduleRenderPhaseUpdate
  /\ didScheduleRenderPhaseUpdateDuringThisPass' =
       w.didScheduleRenderPhaseUpdateDuringThisPass
  /\ err' = w.err
  /\ trace' = w.trace

Other(f) == IF f = "A" THEN "B" ELSE "A"

NewFiber ==
  [memoizedState |-> <<>>, updateQueue |-> 0, lanes |-> NoLanes,
   flags |-> {}, alternate |-> "none"]

NewHook ==
  [memoizedState |-> NullState, baseState |-> NullState, baseQueue |-> 0,
   queue |-> 0]

\* ---------------------------------------------------------------- hook list
mountWorkInProgressHook(w) ==
  LET f == w.currentlyRenderingFiber
      list == w.fibers[f].memoizedState
      kept == IF w.workInProgressHook = 0 THEN <<>>
              ELSE SubSeq(list, 1, w.workInProgressHook)
  IN [w EXCEPT !.fibers[f].memoizedState = Append(kept, NewHook),
               !.workInProgressHook = Len(kept) + 1]

\* Faulty variant of updateWorkInProgressHook: a fresh hook is appended before
\* the invariant fails.
updateWorkInProgressHook_appends(w) ==
  LET f == w.currentlyRenderingFiber
      cur == w.fibers[f].alternate
      curList == IF cur = "none" THEN <<>> ELSE w.fibers[cur].memoizedState
      wipList == w.fibers[f].memoizedState
      nextCurrentHook ==
        IF w.currentHook = 0
        THEN (IF Len(curList) > 0 THEN 1 ELSE 0)
        ELSE (IF w.currentHook < Len(curList) THEN w.currentHook + 1 ELSE 0)
      nextWorkInProgressHook ==
        IF w.workInProgressHook = 0
        THEN (IF Len(wipList) > 0 THEN 1 ELSE 0)
        ELSE (IF w.workInProgressHook < Len(wipList)
              THEN w.workInProgressHook + 1 ELSE 0)
  IN IF nextWorkInProgressHook # 0
     THEN [w EXCEPT !.workInProgressHook = nextWorkInProgressHook,
                    !.currentHook = nextCurrentHook]
     ELSE IF nextCurrentHook = 0
     THEN [mountWorkInProgressHook(w) EXCEPT !.err = "MoreHooks"]
     ELSE LET c == curList[nextCurrentHook]
              newHook == [memoizedState |-> c.memoizedState,
                          baseState |-> c.baseState,
                          baseQueue |-> c.baseQueue,
                          queue |-> c.queue]
              kept == IF w.workInProgressHook = 0 THEN <<>>
                      ELSE SubSeq(wipList, 1, w.workInProgressHook)
          IN [w EXCEPT !.currentHook = nextCurrentHook,
                       !.fibers[f].memoizedState = Append(kept, newHook),
                       !.workInProgressHook = Len(kept) + 1]

\* Faulty variant of updateWorkInProgressHook: when a work-in-progress hook is
\* reused the committed-list cursor stays where it is.
updateWorkInProgressHook_staleCurrent(w) ==
  LET f == w.currentlyRenderingFiber
      cur == w.fibers[f].alternate
      curList == IF cur = "none" THEN <<>> ELSE w.fibers[cur].memoizedState
      wipList == w.fibers[f].memoizedState
      nextCurrentHook ==
        IF w.currentHook = 0
        THEN (IF Len(curList) > 0 THEN 1 ELSE 0)
        ELSE (IF w.currentHook < Len(curList) THEN w.currentHook + 1 ELSE 0)
      nextWorkInProgressHook ==
        IF w.workInProgressHook = 0
        THEN (IF Len(wipList) > 0 THEN 1 ELSE 0)
        ELSE (IF w.workInProgressHook < Len(wipList)
              THEN w.workInProgressHook + 1 ELSE 0)
  IN IF nextWorkInProgressHook # 0
     THEN [w EXCEPT !.workInProgressHook = nextWorkInProgressHook]
     ELSE IF nextCurrentHook = 0
     THEN [w EXCEPT !.err = "MoreHooks"]
     ELSE LET c == curList[nextCurrentHook]
              newHook == [memoizedState |-> c.memoizedState,
                          baseState |-> c.baseState,
                          baseQueue |-> c.baseQueue,
                          queue |-> c.queue]
              kept == IF w.workInProgressHook = 0 THEN <<>>
                      ELSE SubSeq(wipList, 1, w.workInProgressHook)
          IN [w EXCEPT !.currentHook = nextCurrentHook,
                       !.fibers[f].memoizedState = Append(kept, newHook),
                       !.workInProgressHook = Len(kept) + 1]

updateWorkInProgressHook(w) ==
  LET f == w.currentlyRenderingFiber
      cur == w.fibers[f].alternate
      curList == IF cur = "none" THEN <<>> ELSE w.fibers[cur].memoizedState
      wipList == w.fibers[f].memoizedState
      nextCurrentHook ==
        IF w.currentHook = 0
        THEN (IF Len(curList) > 0 THEN 1 ELSE 0)
        ELSE (IF w.currentHook < Len(curList) THEN w.currentHook + 1 ELSE 0)
      nextWorkInProgressHook ==
        IF w.workInProgressHook = 0
        THEN (IF Len(wipList) > 0 THEN 1 ELSE 0)
        ELSE (IF w.workInProgressHook < Len(wipList)
              THEN w.workInProgressHook + 1 ELSE 0)
  IN IF nextWorkInProgressHook # 0
     THEN [w EXCEPT !.workInProgressHook = nextWorkInProgressHook,
                    !.currentHook = nextCurrentHook]
     ELSE IF nextCurrentHook = 0
     THEN [w EXCEPT !.err = "MoreHooks"]
     ELSE LET c == curList[nextCurrentHook]
              newHook == [memoizedState |-> c.memoizedState,
                          baseState |-> c.baseState,
                          baseQueue |-> c.baseQueue,
                          queue |-> c.queue]
              kept == IF w.workInProgressHook = 0 THEN <<>>
                      ELSE SubSeq(wipList, 1, w.workInProgressHook)
          IN [w EXCEPT !.currentHook = nextCurrentHook,
                       !.fibers[f].memoizedState = Append(kept, newHook),
                       !.workInProgressHook = Len(kept) + 1]

\* The hook the work-in-progress cursor stands on.
WipHook(w) ==
  w.fibers[w.currentlyRenderingFiber].memoizedState[w.workInProgressHook]

SetWipHook(w, h) ==
  [w EXCEPT
     !.fibers[w.currentlyRenderingFiber].memoizedState[w.workInProgressHook] = h]

\* ------------------------------------------------------------ collaborators
\* The scheduling request: the lane becomes pending on the fiber and on its
\* alternate.
scheduleUpdateOnFiber(w, fiber, lane) ==
  LET alternate == w.fibers[fiber].alternate
      w1 == [w EXCEPT !.fibers[fiber].lanes = mergeLanes(@, lane),
                      !.trace.scheduled = @ + 1]
  IN IF alternate = "none" THEN w1
     ELSE [w1 EXCEPT !.fibers[alternate].lanes = mergeLanes(@, lane)]

\* Faulty variant of markSkippedUpdateLanes: the lane is not recorded.
markSkippedUpdateLanes_none(w, lane) == w

markSkippedUpdateLanes(w, lane) ==
  [w EXCEPT !.trace.skippedLanes = mergeLanes(@, lane)]

markWorkInProgressReceivedUpdate(w) ==
  [w EXCEPT !.trace.didReceiveUpdate = TRUE]

\* ------------------------------------------------------------ update queue
\* Faulty variant of dispatchAction: a dispatch for the rendering fiber is
\* handled like any other dispatch.
dispatchAction_noRenderPhase(w, fiber, q, action, lane) ==
  LET id == Len(w.heap) + 1
      pending == w.queues[q].pending
      update == [lane |-> lane, action |-> action,
                 eagerReducer |-> NoReducer, eagerState |-> NullState,
                 next |-> IF pending = 0 THEN id ELSE w.heap[pending].next]
      heap1 == Append(w.heap, update)
      heap2 == IF pending = 0 THEN heap1
               ELSE [heap1 EXCEPT ![pending].next = id]
      w1 == [w EXCEPT !.heap = heap2, !.queues[q].pending = id]
  IN scheduleUpdateOnFiber(w1, fiber, lane)

\* Faulty variant of dispatchAction: the eager state is computed and stored
\* but the scheduling request is made even when the state did not change.
dispatchAction_noBailout(w, fiber, q, action, lane) ==
  LET id == Len(w.heap) + 1
      pending == w.queues[q].pending
      update == [lane |-> lane, action |-> action,
                 eagerReducer |-> NoReducer, eagerState |-> NullState,
                 next |-> IF pending = 0 THEN id ELSE w.heap[pending].next]
      heap1 == Append(w.heap, update)
      heap2 == IF pending = 0 THEN heap1
               ELSE [heap1 EXCEPT ![pending].next = id]
      w1 == [w EXCEPT !.heap = heap2, !.queues[q].pending = id]
      alternate == w.fibers[fiber].alternate
  IN IF \/ fiber = w.currentlyRenderingFiber
        \/ (alternate # "none" /\ alternate = w.currentlyRenderingFiber)
     THEN [w1 EXCEPT !.didScheduleRenderPhaseUpdateDuringThisPass = TRUE,
                     !.didScheduleRenderPhaseUpdate = TRUE]
     ELSE IF /\ w.fibers[fiber].lanes = NoLanes
             /\ (alternate = "none" \/ w.fibers[alternate].lanes = NoLanes)
             /\ w.queues[q].lastRenderedReducer # NoReducer
          THEN scheduleUpdateOnFiber(
                 [w1 EXCEPT
                    !.heap[id].eagerReducer = w.queues[q].lastRenderedReducer,
                    !.heap[id].eagerState =
                       Reduce(w.queues[q].lastRenderedReducer,
                              w.queues[q].lastRenderedState, action)],
                 fiber, lane)
          ELSE scheduleUpdateOnFiber(w1, fiber, lane)

\* Faulty variant of dispatchAction: the new update is linked behind the last
\* one but queue.pending is not moved to it.
dispatchAction_keepsPending(w, fiber, q, action, lane) ==
  LET id == Len(w.heap) + 1
      pending == w.queues[q].pending
      update == [lane |-> lane, action |-> action,
                 eagerReducer |-> NoReducer, eagerState |-> NullState,
                 next |-> IF pending = 0 THEN id ELSE w.heap[pending].next]
      heap1 == Append(w.heap, update)
      heap2 == IF pending = 0 THEN heap1
               ELSE [heap1 EXCEPT ![pending].next = id]
  IN scheduleUpdateOnFiber(
       [w EXCEPT !.heap = heap2,
                 !.queues[q].pending = IF pending = 0 THEN id ELSE pending],
       fiber, lane)

dispatchAction(w, fiber, q, action, lane) ==
  LET id == Len(w.heap) + 1
      pending == w.queues[q].pending
      update == [lane |-> lane, action |-> action,
                 eagerReducer |-> NoReducer, eagerState |-> NullState,
                 next |-> IF pending = 0 THEN id ELSE w.heap[pending].next]
      heap1 == Append(w.heap, update)
      heap2 == IF pending = 0 THEN heap1
               ELSE [heap1 EXCEPT ![pending].next = id]
      w1 == [w EXCEPT !.heap = heap2, !.queues[q].pending = id]
      alternate == w.fibers[fiber].alternate
  IN IF \/ fiber = w.currentlyRenderingFiber
        \/ (alternate # "none" /\ alternate = w.currentlyRenderingFiber)
     THEN [w1 EXCEPT !.didScheduleRenderPhaseUpdateDuringThisPass = TRUE,
                     !.didScheduleRenderPhaseUpdate = TRUE]
     ELSE IF /\ w.fibers[fiber].lanes = NoLanes
             /\ (alternate = "none" \/ w.fibers[alternate].lanes = NoLanes)
             /\ w.queues[q].lastRenderedReducer # NoReducer
          THEN LET lastRenderedReducer == w.queues[q].lastRenderedReducer
                   currentState == w.queues[q].lastRenderedState
                   eagerState == Reduce(lastRenderedReducer, currentState, action)
                   w2 == [w1 EXCEPT
                            !.heap[id].eagerReducer = lastRenderedReducer,
                            !.heap[id].eagerState = eagerState]
               IN IF Throws(lastRenderedReducer, currentState, action)
                  THEN scheduleUpdateOnFiber(w1, fiber, lane)
                  ELSE IF is(eagerState, currentState)
                  THEN [w2 EXCEPT !.trace.eagerBailouts = @ + 1]
                  ELSE scheduleUpdateOnFiber(w2, fiber, lane)
          ELSE scheduleUpdateOnFiber(w1, fiber, lane)

mountReducer(w, reducer, initialState) ==
  LET w1 == mountWorkInProgressHook(w)
      q == Len(w1.queues) + 1
      queue == [pending |-> 0, lastRenderedReducer |-> reducer,
                lastRenderedState |-> initialState,
                fiber |-> w1.currentlyRenderingFiber]
      hook == [WipHook(w1) EXCEPT !.memoizedState = initialState,
                                  !.baseState = initialState,
                                  !.queue = q]
  IN SetWipHook([w1 EXCEPT !.queues = Append(@, queue)], hook)

\* Faulty variant of CloneUpdate: the copy loses its lane.
CloneUpdate_noLane(u, lane) ==
  [lane |-> NoLane, action |-> u.action, eagerReducer |-> u.eagerReducer,
   eagerState |-> u.eagerState, next |-> 0]

\* One copy of an update for the new base queue (next: null).
CloneUpdate(u, lane) ==
  [lane |-> lane, action |-> u.action, eagerReducer |-> u.eagerReducer,
   eagerState |-> u.eagerState, next |-> 0]

\* Faulty variant of updateReducerRebase: nothing is appended.
updateReducerRebase_none(acc, u) == acc

\* Faulty variant of updateReducerApply: the action is dropped.
updateReducerApply_dropsAction(reducer, newState, u) == newState

\* The new state of an update whose lane is included: the eagerly computed
\* state if it was computed with this reducer, else the reducer's result.
updateReducerApply(reducer, newState, u) ==
  IF u.eagerReducer = reducer THEN u.eagerState
  ELSE Reduce(reducer, newState, u.action)

\* Faulty variant of updateReducerThrows: the reducer's throw is swallowed.
updateReducerThrows_never(reducer, newState, u) == FALSE

\* Applying the update calls the reducer and the call throws.
updateReducerThrows(reducer, newState, u) ==
  u.eagerReducer # reducer /\ Throws(reducer, newState, u.action)

\* Faulty variant of updateReducerRebase: the clone of an applied update
\* keeps the update's lane.
updateReducerRebase_keepsLane(acc, u) ==
  [acc EXCEPT
     !.w.heap = [Append(acc.w.heap, CloneUpdate(u, u.lane))
                   EXCEPT ![acc.newBaseQueueLast].next = Len(acc.w.heap) + 1],
     !.newBaseQueueLast = Len(acc.w.heap) + 1]

\* An update applied after a skipped one is appended, with NoLane, to the new
\* base queue.
updateReducerRebase(acc, u) ==
  [acc EXCEPT
     !.w.heap = [Append(acc.w.heap, CloneUpdate(u, NoLane))
                   EXCEPT ![acc.newBaseQueueLast].next = Len(acc.w.heap) + 1],
     !.newBaseQueueLast = Len(acc.w.heap) + 1]

\* The do-while loop of updateReducer over the circular list that starts at
\* `first`; acc holds the loop's locals and what it writes.
RECURSIVE updateReducerLoop(_, _, _, _)
updateReducerLoop(acc, update, first, reducer) ==
  IF acc.w.err # "none" THEN acc ELSE
  LET u == acc.w.heap[update]
      updateLane == u.lane
      id == Len(acc.w.heap) + 1
      skip ==
        LET clone == CloneUpdate(u, updateLane)
            heap1 == Append(acc.w.heap, clone)
            heap2 == IF acc.newBaseQueueLast = 0 THEN heap1
                     ELSE [heap1 EXCEPT ![acc.newBaseQueueLast].next = id]
            f == acc.w.currentlyRenderingFiber
            w1 == [acc.w EXCEPT !.heap = heap2,
                                !.fibers[f].lanes = mergeLanes(@, updateLane)]
        IN [acc EXCEPT
              !.w = markSkippedUpdateLanes(w1, updateLane),
              !.newBaseQueueFirst =
                 IF acc.newBaseQueueLast = 0 THEN id ELSE @,
              !.newBaseState =
                 IF acc.newBaseQueueLast = 0 THEN acc.newState ELSE @,
              !.newBaseQueueLast = id]
      apply ==
        LET acc1 == IF acc.newBaseQueueLast # 0
                    THEN updateReducerRebase(acc, u) ELSE acc
        IN IF updateReducerThrows(reducer, acc.newState, u)
           THEN [acc1 EXCEPT !.w.err = Thrown(reducer, u.action)]
           ELSE [acc1 EXCEPT
                   !.newState = updateReducerApply(reducer, acc.newState, u)]
      acc2 == IF ~isSubsetOfLanes(acc.w.renderLanes, updateLane)
              THEN skip ELSE apply
      next == acc2.w.heap[update].next
  IN IF next # 0 /\ next # first
     THEN updateReducerLoop(acc2, next, first, reducer)
     ELSE acc2

\* The updates of the circular list ending at `last`, first to last.
RECURSIVE ListFrom(_, _, _)
ListFrom(h, u, last) ==
  IF u = last \/ h[u].next = 0 THEN <<u>>
  ELSE <<u>> \o ListFrom(h, h[u].next, last)
ListOf(h, last) == IF last = 0 THEN <<>> ELSE ListFrom(h, h[last].next, last)

\* Faulty variant of updateReducerMerge: the merged queue is not stored on the
\* current hook, only the pending queue is cleared.
updateReducerMerge_notStored(w, q, pendingQueue) ==
  IF pendingQueue = 0 THEN w ELSE [w EXCEPT !.queues[q].pending = 0]

\* Faulty variant of updateReducerMerge: the pending queue is merged and
\* stored but not cleared.
updateReducerMerge_keepsPending(w, q, pendingQueue) ==
  LET cf == w.fibers[w.currentlyRenderingFiber].alternate
      baseQueue == w.fibers[cf].memoizedState[w.currentHook].baseQueue
  IN IF pendingQueue = 0 THEN w
     ELSE [w EXCEPT
             !.heap =
                IF baseQueue = 0 THEN @
                ELSE [@ EXCEPT
                        ![baseQueue].next = w.heap[pendingQueue].next,
                        ![pendingQueue].next = w.heap[baseQueue].next],
             !.fibers[cf].memoizedState[w.currentHook].baseQueue = pendingQueue]

\* Faulty variant of updateReducerMerge: after the splice the old base queue
\* stays the last element, so the pending updates come first.
updateReducerMerge_pendingFirst(w, q, pendingQueue) ==
  LET cf == w.fibers[w.currentlyRenderingFiber].alternate
      baseQueue == w.fibers[cf].memoizedState[w.currentHook].baseQueue
  IN IF pendingQueue = 0 THEN w
     ELSE [w EXCEPT
             !.heap =
                IF baseQueue = 0 THEN @
                ELSE [@ EXCEPT
                        ![baseQueue].next = w.heap[pendingQueue].next,
                        ![pendingQueue].next = w.heap[baseQueue].next],
             !.fibers[cf].memoizedState[w.currentHook].baseQueue =
                IF baseQueue = 0 THEN pendingQueue ELSE baseQueue,
             !.queues[q].pending = 0]

\* updateReducer from the merge of the pending queue on: w is the world after
\* updateWorkInProgressHook, q the hook's queue, pendingQueue = queue.pending.
updateReducerMerge(w, q, pendingQueue) ==
  LET cf == w.fibers[w.currentlyRenderingFiber].alternate
      baseQueue == w.fibers[cf].memoizedState[w.currentHook].baseQueue
  IN IF pendingQueue = 0 THEN w
     ELSE [w EXCEPT
             !.heap =
                IF baseQueue = 0 THEN @
                ELSE [@ EXCEPT
                        ![baseQueue].next = w.heap[pendingQueue].next,
                        ![pendingQueue].next = w.heap[baseQueue].next],
             !.fibers[cf].memoizedState[w.currentHook].baseQueue = pendingQueue,
             !.queues[q].pending = 0]

\* Faulty variant of updateReducerStore: the hook keeps the base queue it had
\* before the walk.
updateReducerStore_keepsBaseQueue(acc, q) ==
  LET hook == [WipHook(acc.w) EXCEPT
                 !.memoizedState = acc.newState,
                 !.baseState = IF acc.newBaseQueueLast = 0 THEN acc.newState
                               ELSE acc.newBaseState]
  IN [SetWipHook(acc.w, hook) EXCEPT
        !.queues[q].lastRenderedState = acc.newState]

\* Faulty variant of updateReducerStore: the final state is stored as the
\* base state even when an update was skipped.
updateReducerStore_finalBaseState(acc, q) ==
  LET w1 == IF acc.newBaseQueueLast = 0 THEN acc.w
            ELSE [acc.w EXCEPT
                    !.heap[acc.newBaseQueueLast].next = acc.newBaseQueueFirst]
      hook == [WipHook(acc.w) EXCEPT
                 !.memoizedState = acc.newState,
                 !.baseState = acc.newState,
                 !.baseQueue = acc.newBaseQueueLast]
  IN [SetWipHook(w1, hook) EXCEPT
        !.queues[q].lastRenderedState = acc.newState]

\* What updateReducer stores once the loop has ended with the locals acc.
updateReducerStore(acc, q) ==
  LET w1 == IF acc.newBaseQueueLast = 0 THEN acc.w
            ELSE [acc.w EXCEPT
                    !.heap[acc.newBaseQueueLast].next = acc.newBaseQueueFirst]
      hook == [WipHook(acc.w) EXCEPT
                 !.memoizedState = acc.newState,
                 !.baseState = IF acc.newBaseQueueLast = 0 THEN acc.newState
                               ELSE acc.newBaseState,
                 !.baseQueue = acc.newBaseQueueLast]
      stored == [SetWipHook(w1, hook) EXCEPT
                   !.queues[q].lastRenderedState = acc.newState]
  IN IF ~is(acc.newState, WipHook(acc.w).memoizedState)
     THEN markWorkInProgressReceivedUpdate(stored)
     ELSE stored

\* The end of updateReducer: a throw of the reducer has left the function
\* before anything was stored.
updateReducerEnd(acc, q) ==
  IF acc.w.err # "none" THEN acc.w ELSE updateReducerStore(acc, q)

\* updateReducer after the merge: the walk over the base queue.
updateReducerWalk(w, q, reducer) ==
  LET cf == w.fibers[w.currentlyRenderingFiber].alternate
      cur == w.fibers[cf].memoizedState[w.currentHook]
      baseQueue == cur.baseQueue
      list == ListOf(w.heap, baseQueue)
      first == w.heap[baseQueue].next
      acc0 == [w |-> [w EXCEPT
                        !.trace.walk =
                           [updates |-> [i \in 1..Len(list) |-> w.heap[list[i]]],
                            lanes |-> w.renderLanes,
                            reducer |-> reducer,
                            baseState |-> cur.baseState,
                            hook |-> w.workInProgressHook]],
               newState |-> cur.baseState,
               newBaseState |-> NullState, newBaseQueueFirst |-> 0,
               newBaseQueueLast |-> 0]
  IN IF baseQueue = 0 THEN w
     ELSE updateReducerEnd(updateReducerLoop(acc0, first, first, reducer), q)

updateReducerBody(w, reducer) ==
  IF w.err # "none" THEN w
  ELSE updateReducerWalk(
         updateReducerMerge(
           [w EXCEPT !.queues[WipHook(w).queue].lastRenderedReducer = reducer],
           WipHook(w).queue,
           w.queues[WipHook(w).queue].pending),
         WipHook(w).queue, reducer)

updateReducer(w, reducer) ==
  updateReducerBody(updateWorkInProgressHook(w), reducer)

\* Faulty variant of rerenderReducerBody: only the update queue.pending points
\* at, the last one enqueued, is applied.
rerenderReducerBody_lastOnly(w, reducer) ==
  LET q == WipHook(w).queue
      lastRenderPhaseUpdate == w.queues[q].pending
      hook == WipHook(w)
      newState == IF lastRenderPhaseUpdate = 0 THEN hook.memoizedState
                  ELSE Reduce(reducer, hook.memoizedState,
                              w.heap[lastRenderPhaseUpdate].action)
  IN IF w.err # "none" THEN w
     ELSE IF lastRenderPhaseUpdate = 0
     THEN [w EXCEPT !.queues[q].lastRenderedReducer = reducer]
     ELSE [SetWipHook(w, [hook EXCEPT
                            !.memoizedState = newState,
                            !.baseState = IF hook.baseQueue = 0
                                          THEN newState ELSE @])
             EXCEPT !.queues[q] =
                       [@ EXCEPT !.lastRenderedReducer = reducer,
                                 !.pending = 0,
                                 !.lastRenderedState = newState]]

\* Faulty variant of rerenderReducerBody: the new state is written to
\* baseState whether or not the hook has a base queue.
rerenderReducerBody_alwaysBaseState(w, reducer) ==
  LET q == WipHook(w).queue
      lastRenderPhaseUpdate == w.queues[q].pending
      list == ListOf(w.heap, lastRenderPhaseUpdate)
      hook == WipHook(w)
      newState == Fold(reducer, hook.memoizedState,
                       [i \in 1..Len(list) |-> w.heap[list[i]].action])
  IN IF w.err # "none" THEN w
     ELSE IF lastRenderPhaseUpdate = 0
     THEN [w EXCEPT !.queues[q].lastRenderedReducer = reducer]
     ELSE [SetWipHook(w, [hook EXCEPT !.memoizedState = newState,
                                      !.baseState = newState])
             EXCEPT !.queues[q] =
                       [@ EXCEPT !.lastRenderedReducer = reducer,
                                 !.pending = 0,
                                 !.lastRenderedState = newState]]

rerenderReducerBody(w, reducer) ==
  LET q == WipHook(w).queue
      lastRenderPhaseUpdate == w.queues[q].pending
      list == ListOf(w.heap, lastRenderPhaseUpdate)
      hook == WipHook(w)
      newState == Fold(reducer, hook.memoizedState,
                       [i \in 1..Len(list) |-> w.heap[list[i]].action])
      stored == [SetWipHook(w, [hook EXCEPT
                                  !.memoizedState = newState,
                                  !.baseState = IF hook.baseQueue = 0
                                                THEN newState ELSE @])
                   EXCEPT !.queues[q] =
                             [@ EXCEPT !.lastRenderedReducer = reducer,
                                       !.pending = 0,
                                       !.lastRenderedState = newState]]
  IN IF w.err # "none" THEN w
     ELSE IF lastRenderPhaseUpdate = 0
     THEN [w EXCEPT !.queues[q].lastRenderedReducer = reducer]
     ELSE IF FoldThrows(reducer, hook.memoizedState,
                        [i \in 1..Len(list) |-> w.heap[list[i]].action])
     THEN [w EXCEPT !.queues[q].lastRenderedReducer = reducer,
                    !.queues[q].pending = 0,
                    !.err = FoldThrown(
                              reducer, hook.memoizedState,
                              [i \in 1..Len(list) |-> w.heap[list[i]].action])]
     ELSE IF ~is(newState, hook.memoizedState)
     THEN markWorkInProgressReceivedUpdate(stored)
     ELSE stored

rerenderReducer(w, reducer) ==
  rerenderReducerBody(updateWorkInProgressHook(w), reducer)

\* ------------------------------------------------------------- effect list
\* A dependency list: null, or an array of values.
NullDeps == [null |-> TRUE, list |-> <<>>]
Deps(l) == [null |-> FALSE, list |-> l]

\* Faulty variant of areHookInputsEqual: any two lists are equal.
areHookInputsEqual_always(nextDeps, prevDeps) == TRUE

\* The value NaN, and the === comparison, under which NaN differs from itself.
NaN == "NaN"
StrictEquals(x, y) == x = y /\ x # NaN

\* Faulty variant of areHookInputsEqual: the elements are compared with ===.
areHookInputsEqual_strict(nextDeps, prevDeps) ==
  IF prevDeps.null THEN FALSE
  ELSE \A i \in 1..Len(prevDeps.list) :
         i <= Len(nextDeps.list)
           => StrictEquals(nextDeps.list[i], prevDeps.list[i])

areHookInputsEqual(nextDeps, prevDeps) ==
  IF prevDeps.null THEN FALSE
  ELSE \A i \in 1..Len(prevDeps.list) :
         i <= Len(nextDeps.list) => is(nextDeps.list[i], prevDeps.list[i])

\* Faulty variant of pushEffect: an effect pushed onto a non-empty list is
\* linked in but lastEffect keeps pointing at the one before it.
pushEffect_keepsLast(w, tag, create, destroy, deps) ==
  LET id == Len(w.effects) + 1
      f == w.currentlyRenderingFiber
      effect == [tag |-> tag, create |-> create, destroy |-> destroy,
                 deps |-> deps, next |-> 0]
      componentUpdateQueue == w.fibers[f].updateQueue
  IN IF componentUpdateQueue = 0
     THEN [w EXCEPT
             !.effects = Append(@, [effect EXCEPT !.next = id]),
             !.fqs = Append(@, [lastEffect |-> id]),
             !.fibers[f].updateQueue = Len(w.fqs) + 1]
     ELSE LET lastEffect == w.fqs[componentUpdateQueue].lastEffect
          IN IF lastEffect = 0
             THEN [w EXCEPT
                     !.effects = Append(@, [effect EXCEPT !.next = id]),
                     !.fqs[componentUpdateQueue].lastEffect = id]
             ELSE [w EXCEPT
                     !.effects =
                        Append([@ EXCEPT ![lastEffect].next = id],
                               [effect EXCEPT
                                  !.next = w.effects[lastEffect].next])]

\* Returns the world with the effect appended; the new effect is the last
\* object of the effects heap.
pushEffect(w, tag, create, destroy, deps) ==
  LET id == Len(w.effects) + 1
      f == w.currentlyRenderingFiber
      effect == [tag |-> tag, create |-> create, destroy |-> destroy,
                 deps |-> deps, next |-> 0]
      componentUpdateQueue == w.fibers[f].updateQueue
  IN IF componentUpdateQueue = 0
     THEN [w EXCEPT
             !.effects = Append(@, [effect EXCEPT !.next = id]),
             !.fqs = Append(@, [lastEffect |-> id]),
             !.fibers[f].updateQueue = Len(w.fqs) + 1]
     ELSE LET lastEffect == w.fqs[componentUpdateQueue].lastEffect
          IN IF lastEffect = 0
             THEN [w EXCEPT
                     !.effects = Append(@, [effect EXCEPT !.next = id]),
                     !.fqs[componentUpdateQueue].lastEffect = id]
             ELSE LET firstEffect == w.effects[lastEffect].next
                  IN [w EXCEPT
                        !.effects =
                           Append([@ EXCEPT ![lastEffect].next = id],
                                  [effect EXCEPT !.next = firstEffect]),
                        !.fqs[componentUpdateQueue].lastEffect = id]

\* What a hook call hands back to the component.
Return(w, value) == [w EXCEPT !.trace.out = Append(@, value)]

mountEffectImpl(w, fiberFlags, hookFlags, create, deps) ==
  LET w1 == mountWorkInProgressHook(w)
      f == w1.currentlyRenderingFiber
      w2 == [w1 EXCEPT !.fibers[f].flags = @ \cup fiberFlags]
      w3 == pushEffect(w2, HookHasEffect \cup hookFlags, create, 0, deps)
  IN SetWipHook(w3, [WipHook(w3) EXCEPT !.memoizedState = Len(w3.effects)])

\* Faulty variant of updateEffectImpl: the effect pushed for unchanged
\* dependencies does not carry the previous destroy callback.
updateEffectImpl_dropsDestroy(w, fiberFlags, hookFlags, create, deps) ==
  LET w1 == updateWorkInProgressHook(w) IN
  IF w1.err # "none" THEN w1 ELSE
  LET f == w1.currentlyRenderingFiber
      cf == w1.fibers[f].alternate
      hasPrev == w1.currentHook # 0
      prevEffect == w1.effects[w1.fibers[cf].memoizedState[w1.currentHook].memoizedState]
      destroy == IF hasPrev THEN prevEffect.destroy ELSE 0
  IN IF hasPrev /\ ~deps.null /\ areHookInputsEqual(deps, prevEffect.deps)
     THEN pushEffect(w1, hookFlags, create, 0, deps)
     ELSE LET w2 == [w1 EXCEPT !.fibers[f].flags = @ \cup fiberFlags]
              w3 == pushEffect(w2, HookHasEffect \cup hookFlags, create,
                               destroy, deps)
          IN SetWipHook(w3, [WipHook(w3) EXCEPT
                               !.memoizedState = Len(w3.effects)])

\* updateEffectImpl after its first line: w1 is the world
\* updateWorkInProgressHook left.
updateEffectImplBody(w1, fiberFlags, hookFlags, create, deps) ==
  IF w1.err # "none" THEN w1 ELSE
  LET f == w1.currentlyRenderingFiber
      cf == w1.fibers[f].alternate
      hasPrev == w1.currentHook # 0
      prevEffect == w1.effects[w1.fibers[cf].memoizedState[w1.currentHook].memoizedState]
      destroy == IF hasPrev THEN prevEffect.destroy ELSE 0
  IN IF hasPrev /\ ~deps.null /\ areHookInputsEqual(deps, prevEffect.deps)
     THEN pushEffect(w1, hookFlags, create, destroy, deps)
     ELSE LET w2 == [w1 EXCEPT !.fibers[f].flags = @ \cup fiberFlags]
              w3 == pushEffect(w2, HookHasEffect \cup hookFlags, create,
                               destroy, deps)
          IN SetWipHook(w3, [WipHook(w3) EXCEPT
                               !.memoizedState = Len(w3.effects)])

updateEffectImpl(w, fiberFlags, hookFlags, create, deps) ==
  updateEffectImplBody(updateWorkInProgressHook(w), fiberFlags, hookFlags,
                       create, deps)

mountEffect(w, create, deps) ==
  mountEffectImpl(w, UpdateEffect \cup PassiveEffect, HookPassive, create, deps)

updateEffect(w, create, deps) ==
  updateEffectImpl(w, UpdateEffect \cup PassiveEffect, HookPassive, create, deps)

mountLayoutEffect(w, create, deps) ==
  mountEffectImpl(w, UpdateEffect, HookLayout, create, deps)

updateLayoutEffect(w, create, deps) ==
  updateEffectImpl(w, UpdateEffect, HookLayout, create, deps)

\* ---------------------------------------------------------- memo, callback
\* A memo or callback hook's memoizedState is the pair <<value, deps>>.
mountCallback(w, callback, deps) ==
  LET w1 == mountWorkInProgressHook(w)
  IN Return(SetWipHook(w1, [WipHook(w1) EXCEPT
                              !.memoizedState = <<callback, deps>>]),
            callback)

updateCallback(w, callback, deps) ==
  LET w1 == updateWorkInProgressHook(w) IN
  IF w1.err # "none" THEN w1 ELSE
  LET prevState == WipHook(w1).memoizedState
  IN IF /\ prevState # NullState
        /\ ~deps.null
        /\ areHookInputsEqual(deps, prevState[2])
     THEN Return(w1, prevState[1])
     ELSE Return(SetWipHook(w1, [WipHook(w1) EXCEPT
                                   !.memoizedState = <<callback, deps>>]),
                 callback)

\* nextCreate() computes `value`; trace.creates counts its calls.
mountMemo(w, value, deps) ==
  LET w1 == mountWorkInProgressHook(w)
      w2 == [w1 EXCEPT !.trace.creates = @ + 1]
  IN Return(SetWipHook(w2, [WipHook(w2) EXCEPT
                              !.memoizedState = <<value, deps>>]),
            value)

updateMemo(w, value, deps) ==
  LET w1 == updateWorkInProgressHook(w) IN
  IF w1.err # "none" THEN w1 ELSE
  LET prevState == WipHook(w1).memoizedState
  IN IF /\ prevState # NullState
        /\ ~deps.null
        /\ areHookInputsEqual(deps, prevState[2])
     THEN Return(w1, prevState[1])
     ELSE LET w2 == [w1 EXCEPT !.trace.creates = @ + 1]
          IN Return(SetWipHook(w2, [WipHook(w2) EXCEPT
                                      !.memoizedState = <<value, deps>>]),
                    value)

\* ---------------------------------------------------------- mutable source
\* The source object of createMutableSource together with the store it wraps:
\* version is what _getVersion(_source) returns now, value what getSnapshot
\* reads.  dirty stands for markSourceAsDirty's record of the source.
\* A work-in-progress version slot holds <<>> for null and <<v>> for version v.
NullVersion == <<>>

SourceValues == {"x", "y"}

createMutableSource ==
  [version |-> 0, value |-> "x", workInProgressVersionPrimary |-> NullVersion,
   dirty |-> FALSE]

getWorkInProgressVersion(mutableSource) ==
  mutableSource.workInProgressVersionPrimary

setWorkInProgressVersion(mutableSource, version) ==
  [mutableSource EXCEPT !.workInProgressVersionPrimary = <<version>>]

markSourceAsDirty(mutableSource) == [mutableSource EXCEPT !.dirty = TRUE]

\* The work loop forgets the work-in-progress versions when a pass begins.
resetWorkInProgressVersions(mutableSource) ==
  [mutableSource EXCEPT !.workInProgressVersionPrimary = NullVersion,
                        !.dirty = FALSE]

\* Faulty variant of isSafeToReadFromSource: the versions are not compared.
isSafeToReadFromSource_anyVersion(rt, mutableSource, lanes) ==
  IF getWorkInProgressVersion(mutableSource) # NullVersion THEN TRUE
  ELSE isSubsetOfLanes(lanes, rt.mutableReadLanes)

\* Faulty variant of isSafeToReadFromSource: on a first read the lanes are
\* compared the wrong way round.
isSafeToReadFromSource_lanesReversed(rt, mutableSource, lanes) ==
  IF getWorkInProgressVersion(mutableSource) # NullVersion
  THEN getWorkInProgressVersion(mutableSource) = <<mutableSource.version>>
  ELSE isSubsetOfLanes(rt.mutableReadLanes, lanes)

\* The local isSafeToReadFromSource of readFromUnsubcribedMutableSource.
isSafeToReadFromSource(rt, mutableSource, lanes) ==
  IF getWorkInProgressVersion(mutableSource) # NullVersion
  THEN getWorkInProgressVersion(mutableSource) = <<mutableSource.version>>
  ELSE isSubsetOfLanes(lanes, rt.mutableReadLanes)

NoSnapshot == "none"

\* Faulty variant of readFromUnsubcribedMutableSource: an unsafe read throws
\* without marking the source.
readFromUnsubcribedMutableSource_notMarked(rt, mutableSource, lanes) ==
  IF isSafeToReadFromSource(rt, mutableSource, lanes)
  THEN [source |-> IF getWorkInProgressVersion(mutableSource) = NullVersion
                   THEN setWorkInProgressVersion(mutableSource,
                                                 mutableSource.version)
                   ELSE mutableSource,
        threw |-> FALSE, snapshot |-> mutableSource.value]
  ELSE [source |-> mutableSource, threw |-> TRUE, snapshot |-> NoSnapshot]

\* The result: the source after the call, whether the call threw the tearing
\* error, and the snapshot it returned.
readFromUnsubcribedMutableSource(rt, mutableSource, lanes) ==
  IF isSafeToReadFromSource(rt, mutableSource, lanes)
  THEN [source |-> IF getWorkInProgressVersion(mutableSource) = NullVersion
                   THEN setWorkInProgressVersion(mutableSource,
                                                 mutableSource.version)
                   ELSE mutableSource,
        threw |-> FALSE, snapshot |-> mutableSource.value]
  ELSE [source |-> markSourceAsDirty(mutableSource), threw |-> TRUE,
        snapshot |-> NoSnapshot]

\* What a free identifier of the module resolves to when the environment
\* binds no global of that name.
NoBinding == "unbound"

\* --------------------------------------------------------- useMutableSource
\* The arguments of a useMutableSource call travel as the list
\* <<source, getSnapshot, subscribe>> of identities; a snapshot is held as the
\* state <<snapshot>> of the state hook.
SourceOf(in) == in.deps.list[1]
GetSnapshotOf(in) == in.deps.list[2]
SubscribeOf(in) == in.deps.list[3]

\* mountState with the initializer () => readFromUnsubcribedMutableSource(..);
\* r is what the initializer's read gives.  The hook is appended before the
\* initializer runs.
mountState(w, r) ==
  IF r.threw
  THEN [mountWorkInProgressHook(w) EXCEPT !.source = r.source,
                                          !.err = "Tearing"]
  ELSE mountReducer([w EXCEPT !.source = r.source], basicStateReducer,
                    <<r.snapshot>>)

updateState(w) == updateReducer(w, basicStateReducer)

rerenderState(w) == rerenderReducer(w, basicStateReducer)

\* dispatcher.useState(() => readFromUnsubcribedMutableSource(..)) and
\* dispatcher.useEffect(create, deps), through the table that is current.
useSnapshotState(dispatcher, w) ==
  CASE dispatcher = "Mount" ->
         mountState(w, readFromUnsubcribedMutableSource(w.root, w.source,
                                                        w.renderLanes))
    [] dispatcher = "Update" -> updateState(w)
    [] dispatcher = "Rerender" -> rerenderState(w)

useEffect(dispatcher, w, create, deps) ==
  IF w.err # "none" THEN w
  ELSE IF dispatcher = "Mount" THEN mountEffect(w, create, deps)
  ELSE updateEffect(w, create, deps)

\* The end of useMutableSource: r is what the second read gives; the state
\* hook has its new queue already.
useMutableSourceReread(w, stateHook, r) ==
  LET f == w.currentlyRenderingFiber
  IN IF r.threw
     THEN [w EXCEPT !.source = r.source, !.err = "Tearing"]
     ELSE Return([w EXCEPT
                    !.source = r.source,
                    !.fibers[f].memoizedState[stateHook].memoizedState =
                       <<r.snapshot>>,
                    !.fibers[f].memoizedState[stateHook].baseState =
                       <<r.snapshot>>],
                 <<r.snapshot>>)

\* The test of the inputs and what follows it: with changed inputs the state
\* hook gets a new queue and the source is read again.
useMutableSourceReset(w, stateHook, changed) ==
  IF w.err # "none" THEN w
  ELSE LET f == w.currentlyRenderingFiber
           snapshot == w.fibers[f].memoizedState[stateHook].memoizedState
           newQueue == [pending |-> 0,
                        lastRenderedReducer |-> basicStateReducer,
                        lastRenderedState |-> snapshot, fiber |-> f]
       IN IF ~changed THEN Return(w, snapshot)
          ELSE useMutableSourceReread(
                 [w EXCEPT
                    !.queues = Append(@, newQueue),
                    !.fibers[f].memoizedState[stateHook].queue =
                       Len(w.queues) + 1,
                    !.fibers[f].memoizedState[stateHook].baseQueue = 0],
                 stateHook,
                 readFromUnsubcribedMutableSource(w.root, w.source,
                                                  w.renderLanes))

\* From the write of hook.memoizedState on; subscribe is what the identifier
\* `subscribe` of the body resolves to, prev the hook's memoizedState before
\* the write.  The record keeps, next to the fields of the object, the local
\* `version` of the call, which the effects it creates close over.
useMutableSourceStore(dispatcher, w, hook, stateHook, in, subscribe, prev, token) ==
  LET f == w.currentlyRenderingFiber
      source_ == SourceOf(in)
      getSnapshot == GetSnapshotOf(in)
      w1 == [w EXCEPT !.fibers[f].memoizedState[hook].memoizedState =
                         [refs |-> prev.refs, source |-> source_,
                          subscribe |-> subscribe,
                          version |-> w.source.version]]
      w2 == useEffect(dispatcher, w1, token,
                      Deps(<<getSnapshot, source_, subscribe>>))
  IN useMutableSourceReset(
       useEffect(dispatcher, w2, token, Deps(<<source_, subscribe>>)),
       stateHook,
       \/ ~is(prev.refs.getSnapshot, getSnapshot)
       \/ ~is(prev.source, source_)
       \/ ~is(prev.subscribe, subscribe))

\* After the state hook: the fourth parameter of the function is named
\* `subscribed`, so the `subscribe` its body names is a free identifier of
\* the module; reading it throws when the environment binds no such global.
useMutableSourceBody(dispatcher, w, hook, in, subscribed, token) ==
  IF w.err # "none" THEN w
  ELSE IF w.env = NoBinding THEN [w EXCEPT !.err = "ReferenceError"]
  ELSE useMutableSourceStore(
         dispatcher, w, hook, w.workInProgressHook, in, w.env,
         w.fibers[w.currentlyRenderingFiber].memoizedState[hook].memoizedState,
         token)

useMutableSource(dispatcher, w, hook, in, subscribed, token) ==
  useMutableSourceBody(dispatcher, useSnapshotState(dispatcher, w), hook, in,
                       subscribed, token)

mountMutableSource(w, in, token) ==
  LET w1 == mountWorkInProgressHook(w)
  IN useMutableSource(
       "Mount",
       SetWipHook(w1, [WipHook(w1) EXCEPT
                         !.memoizedState =
                            [refs |-> [getSnapshot |-> GetSnapshotOf(in),
                                       setSnapshot |-> 0],
                             source |-> SourceOf(in),
                             subscribe |-> SubscribeOf(in),
                             version |-> w.source.version]]),
       w1.workInProgressHook, in, SubscribeOf(in), token)

updateMutableSource(dispatcher, w, in, token) ==
  LET w1 == updateWorkInProgressHook(w)
  IN IF w1.err # "none" THEN w1
     ELSE useMutableSource(dispatcher, w1, w1.workInProgressHook, in,
                           SubscribeOf(in), token)

\* ------------------------------------------------ the remaining primitives
\* What useState's initial-state argument gives: a value, read from nothing.
InitialRead(w) == [threw |-> FALSE, snapshot |-> 0, source |-> w.source]

mountRef(w, initialValue) ==
  LET w1 == mountWorkInProgressHook(w)
  IN SetWipHook(w1, [WipHook(w1) EXCEPT !.memoizedState = <<initialValue>>])

updateRef(w, initialValue) == updateWorkInProgressHook(w)

\* effectDeps: deps.concat([ref]), or null when deps is null or undefined.
imperativeHandleDeps(deps) ==
  IF deps.null THEN NullDeps ELSE Deps(Append(deps.list, "ref"))

mountImperativeHandle(w, create, deps) ==
  mountEffectImpl(w, UpdateEffect, HookLayout, create,
                  imperativeHandleDeps(deps))

updateImperativeHandle(w, create, deps) ==
  updateEffectImpl(w, UpdateEffect, HookLayout, create,
                   imperativeHandleDeps(deps))

mountDebugValue(w) == w

updateDebugValue(w) == mountDebugValue(w)

\* The primitives below begin with a call of useState.  Each takes s, the
\* world its call of mountState, updateState or rerenderState left, and does
\* the rest of its body.
mountDeferredValue(s, create, value) == mountEffect(s, create, Deps(<<value>>))

updateDeferredValue(s, create, value) ==
  useEffect("Update", s, create, Deps(<<value>>))

rerenderDeferredValue(s, create, value) ==
  useEffect("Rerender", s, create, Deps(<<value>>))

mountTransitionStart(w1) ==
  SetWipHook(w1, [WipHook(w1) EXCEPT !.memoizedState = <<"start">>])

mountTransition(s) == mountTransitionStart(mountWorkInProgressHook(s))

\* Faulty variant of updateTransition: the cell of `start` is not consumed.
updateTransition_oneCell(s) == s

updateTransition(s) ==
  IF s.err # "none" THEN s ELSE updateWorkInProgressHook(s)

rerenderTransition(s) ==
  IF s.err # "none" THEN s ELSE updateWorkInProgressHook(s)

\* hydrating: what getIsHydrating() returns.  While hydrating, a fiber in
\* legacy mode also gets a passive effect, pushed without a hook cell.
mountOpaqueIdentifier(s, hydrating, create) ==
  IF hydrating
  THEN pushEffect([s EXCEPT !.fibers[s.currentlyRenderingFiber].flags =
                              @ \cup UpdateEffect \cup PassiveEffect],
                  HookHasEffect \cup HookPassive, create, 0, NullDeps)
  ELSE s

updateOpaqueIdentifier(s) == s

rerenderOpaqueIdentifier(s) == s

\* ------------------------------------------------------- dispatcher tables
throwInvalidHookError(w) == [w EXCEPT !.err = "InvalidHookCall"]

\* The context read shared by the four tables: it hands back the value of the
\* context and adds no hook to the list.
readContext(w, context) == [w EXCEPT !.trace.out = Append(@, context)]

\* The reducer primitives hand back [hook.memoizedState, dispatch].
ReturnState(w) ==
  IF w.err # "none" THEN w ELSE Return(w, WipHook(w).memoizedState)

\* The operations that begin with a call of useState, and what each table
\* does with the world s that call left.
StateFirst ==
  {"state", "deferredValue", "transition", "opaqueIdentifier",
   "opaqueIdentifierHydrating"}

MountAfterState(s, kind, in, token) ==
  CASE kind = "state" -> ReturnState(s)
    [] kind = "deferredValue" -> mountDeferredValue(s, token, in.deps)
    [] kind = "transition" -> mountTransition(s)
    [] kind = "opaqueIdentifier" -> mountOpaqueIdentifier(s, FALSE, token)
    [] kind = "opaqueIdentifierHydrating" ->
         mountOpaqueIdentifier(s, TRUE, token)

UpdateAfterState(s, kind, in, token) ==
  CASE kind = "state" -> ReturnState(s)
    [] kind = "deferredValue" -> updateDeferredValue(s, token, in.deps)
    [] kind = "transition" -> updateTransition(s)
    [] kind = "opaqueIdentifier" -> updateOpaqueIdentifier(s)
    [] kind = "opaqueIdentifierHydrating" -> updateOpaqueIdentifier(s)

RerenderAfterState(s, kind, in, token) ==
  CASE kind = "state" -> ReturnState(s)
    [] kind = "deferredValue" -> rerenderDeferredValue(s, token, in.deps)
    [] kind = "transition" -> rerenderTransition(s)
    [] kind = "opaqueIdentifier" -> rerenderOpaqueIdentifier(s)
    [] kind = "opaqueIdentifierHydrating" -> rerenderOpaqueIdentifier(s)

\* One primitive call routed through dispatcher table d.  `in` carries the
\* arguments of the call, `token` names the closures created by this
\* invocation of the component.
HooksDispatcherOnMount(w, kind, in, token) ==
  CASE kind = "reducer" -> ReturnState(mountReducer(w, in.reducer, InitialState))
    [] kind = "memo" -> mountMemo(w, token, in.deps)
    [] kind = "callback" -> mountCallback(w, token, in.deps)
    [] kind = "effect" -> mountEffect(w, token, in.deps)
    [] kind = "layoutEffect" -> mountLayoutEffect(w, token, in.deps)
    [] kind = "context" -> readContext(w, "context")
    [] kind = "readContext" -> readContext(w, "context")
    [] kind = "mutableSource" -> mountMutableSource(w, in, token)
    [] kind = "ref" -> mountRef(w, token)
    [] kind = "imperativeHandle" -> mountImperativeHandle(w, token, in.deps)
    [] kind = "debugValue" -> mountDebugValue(w)
    [] kind \in StateFirst ->
         MountAfterState(mountState(w, InitialRead(w)), kind, in, token)

HooksDispatcherOnUpdate(w, kind, in, token) ==
  CASE kind = "reducer" -> ReturnState(updateReducer(w, in.reducer))
    [] kind = "memo" -> updateMemo(w, token, in.deps)
    [] kind = "callback" -> updateCallback(w, token, in.deps)
    [] kind = "effect" -> updateEffect(w, token, in.deps)
    [] kind = "layoutEffect" -> updateLayoutEffect(w, token, in.deps)
    [] kind = "context" -> readContext(w, "context")
    [] kind = "readContext" -> readContext(w, "context")
    [] kind = "mutableSource" -> updateMutableSource("Update", w, in, token)
    [] kind = "ref" -> updateRef(w, token)
    [] kind = "imperativeHandle" -> updateImperativeHandle(w, token, in.deps)
    [] kind = "debugValue" -> updateDebugValue(w)
    [] kind \in StateFirst ->
         UpdateAfterState(updateState(w), kind, in, token)

HooksDispatcherOnRerender(w, kind, in, token) ==
  CASE kind = "reducer" -> ReturnState(rerenderReducer(w, in.reducer))
    [] kind = "memo" -> updateMemo(w, token, in.deps)
    [] kind = "callback" -> updateCallback(w, token, in.deps)
    [] kind = "effect" -> updateEffect(w, token, in.deps)
    [] kind = "layoutEffect" -> updateLayoutEffect(w, token, in.deps)
    [] kind = "context" -> readContext(w, "context")
    [] kind = "readContext" -> readContext(w, "context")
    [] kind = "mutableSource" -> updateMutableSource("Rerender", w, in, token)
    [] kind = "ref" -> updateRef(w, token)
    [] kind = "imperativeHandle" -> updateImperativeHandle(w, token, in.deps)
    [] kind = "debugValue" -> updateDebugValue(w)
    [] kind \in StateFirst ->
         RerenderAfterState(rerenderState(w), kind, in, token)

\* Faulty variant of ContextOnlyDispatcher: the call returns without throwing.
ContextOnlyDispatcher_silent(w, kind, in, token) == w

ContextOnlyDispatcher(w, kind, in, token) ==
  CASE kind = "readContext" -> readContext(w, "context")
    [] OTHER -> throwInvalidHookError(w)

\* The names of the operations of a dispatcher table.
Primitives ==
  {"reducer", "memo", "callback", "effect", "layoutEffect", "context",
   "readContext", "mutableSource"}

UseHook(d, w, kind, in, token) ==
  CASE d = "Mount" -> HooksDispatcherOnMount(w, kind, in, token)
    [] d = "Update" -> HooksDispatcherOnUpdate(w, kind, in, token)
    [] d = "Rerender" -> HooksDispatcherOnRerender(w, kind, in, token)
    [] d = "ContextOnly" -> ContextOnlyDispatcher(w, kind, in, token)

\* ----------------------------------------------------------- the component
\* The component function: it calls its primitives in order and, when
\* selfUpdate is set, dispatches one action to its first reducer hook before
\* it returns.  A throw ends the invocation at once.
RECURSIVE CallHooks(_, _, _, _, _, _)
CallHooks(d, w, hooks, ins, token, i) ==
  IF i > Len(hooks) \/ w.err # "none" THEN w
  ELSE CallHooks(d, UseHook(d, w, hooks[i], ins[i], token), hooks, ins,
                 token, i + 1)

\* The lane requestUpdateLane gives a dispatch made while rendering: a lane of
\* the render in progress.
requestUpdateLaneInRender(w) ==
  {CHOOSE b \in w.renderLanes : \A c \in w.renderLanes : b <= c}

\* The queue of the first reducer hook this invocation has called: the
\* component dispatches with the function that hook handed it.
FirstQueue(w) ==
  LET list == w.fibers[w.currentlyRenderingFiber].memoizedState
      S == {i \in 1..w.workInProgressHook : list[i].queue # 0}
  IN IF S = {} THEN 0
     ELSE list[CHOOSE i \in S : \A j \in S : i <= j].queue

\* A component that dispatches twice in an invocation: the second dispatch,
\* with an action that differs from the first.
ComponentSecondUpdate(w) ==
  IF w.burst < 2 THEN w
  ELSE dispatchAction(w, w.queues[FirstQueue(w)].fiber, FirstQueue(w),
                      w.trace.invocations, requestUpdateLaneInRender(w))

\* The component's own dispatch, after its hook calls.
ComponentSelfUpdate(w, selfUpdate) ==
  IF w.err # "none" \/ ~selfUpdate \/ FirstQueue(w) = 0 THEN w
  ELSE ComponentSecondUpdate(
         dispatchAction(w, w.queues[FirstQueue(w)].fiber, FirstQueue(w),
                        0 - w.trace.invocations, requestUpdateLaneInRender(w)))

\* The component's dispatch before its hook calls, with the dispatch function
\* of queue q that an earlier render handed it (0: no such dispatch); the
\* action tells these dispatches from the others.
EarlyAction(invocation) == 100 + invocation

ComponentEarlyUpdate(w, q) ==
  IF q = 0 THEN w
  ELSE dispatchAction(w, w.queues[q].fiber, q,
                      EarlyAction(w.trace.invocations + 1),
                      requestUpdateLaneInRender(w))

\* The component function throws at the end of its body.
ComponentThrow(w, fail) ==
  IF fail /\ w.err = "none" THEN [w EXCEPT !.err = "ComponentError"] ELSE w

ComponentBody(d, w, hooks, ins, selfUpdate) ==
  ComponentSelfUpdate(CallHooks(d, w, hooks, ins, w.trace.invocations, 1),
                      selfUpdate)

Component(d, w, hooks, ins, selfUpdate) ==
  ComponentBody(d,
                [w EXCEPT !.trace.invocations = @ + 1,
                          !.trace.passInvocations = @ + 1,
                          !.trace.out = <<>>],
                hooks, ins, selfUpdate)

\* --------------------------------------------------------- renderWithHooks
\* The work loop's preparation of the work-in-progress fiber: a fresh fiber on
\* mount, otherwise the alternate of the committed one, reset from it.
Wip == IF current = "none" THEN "A" ELSE Other(current)

createWorkInProgress(w, cur, wip) ==
  IF cur = "none" THEN [w EXCEPT !.fibers[wip] = NewFiber]
  ELSE [w EXCEPT
          !.fibers[wip] = [memoizedState |-> w.fibers[cur].memoizedState,
                           updateQueue |-> w.fibers[cur].updateQueue,
                           lanes |-> w.fibers[cur].lanes,
                           flags |-> {},
                           alternate |-> cur],
          !.fibers[cur].alternate = wip]

\* renderWithHooks up to the first call of Component.
renderWithHooksEnter(w, workInProgress, nextRenderLanes) ==
  [w EXCEPT !.renderLanes = nextRenderLanes,
            !.currentlyRenderingFiber = workInProgress,
            !.fibers[workInProgress].memoizedState = <<>>,
            !.fibers[workInProgress].updateQueue = 0,
            !.fibers[workInProgress].lanes = NoLanes]

\* Faulty variant of FirstDispatcher: the committed hook state is not looked
\* at.
FirstDispatcher_noHookCheck(w, cur) ==
  IF cur = "none" THEN "Mount" ELSE "Update"

FirstDispatcher(w, cur) ==
  IF cur = "none" \/ w.fibers[cur].memoizedState = <<>>
  THEN "Mount" ELSE "Update"

\* Faulty variant of renderWithHooksAgain: the hook cursors are not reset.
renderWithHooksAgain_noReset(w) ==
  LET w1 == [w EXCEPT !.didScheduleRenderPhaseUpdateDuringThisPass = FALSE]
  IN IF ~(numberOfReRenders < RE_RENDER_LIMIT)
     THEN [w1 EXCEPT !.err = "TooManyReRenders"]
     ELSE w1

\* Faulty variant of renderWithHooksAgain: the limit is never enforced.
renderWithHooksAgain_noLimit(w) ==
  [w EXCEPT !.didScheduleRenderPhaseUpdateDuringThisPass = FALSE,
            !.currentHook = 0,
            !.workInProgressHook = 0,
            !.fibers[w.currentlyRenderingFiber].updateQueue = 0]

\* Faulty variant of renderWithHooksAgain: the limit is enforced one turn
\* late.
renderWithHooksAgain_lateLimit(w) ==
  LET w1 == [w EXCEPT !.didScheduleRenderPhaseUpdateDuringThisPass = FALSE]
  IN IF ~(numberOfReRenders <= RE_RENDER_LIMIT)
     THEN [w1 EXCEPT !.err = "TooManyReRenders"]
     ELSE [w1 EXCEPT !.currentHook = 0,
                     !.workInProgressHook = 0,
                     !.fibers[w.currentlyRenderingFiber].updateQueue = 0]

\* One turn of the do-while loop, up to the call of Component.
renderWithHooksAgain(w) ==
  LET w1 == [w EXCEPT !.didScheduleRenderPhaseUpdateDuringThisPass = FALSE]
  IN IF ~(numberOfReRenders < RE_RENDER_LIMIT)
     THEN [w1 EXCEPT !.err = "TooManyReRenders"]
     ELSE [w1 EXCEPT !.currentHook = 0,
                     !.workInProgressHook = 0,
                     !.fibers[w.currentlyRenderingFiber].updateQueue = 0]

\* Faulty variant of renderWithHooksExitDispatcher: the table of the last
\* invocation stays active.
renderWithHooksExitDispatcher_kept(d) == d

\* The dispatcher renderWithHooks leaves active in place of d when it returns,
\* and the one resetHooksAfterThrow leaves active.
renderWithHooksExitDispatcher(d) == "ContextOnly"

resetHooksAfterThrowDispatcher(d) == "ContextOnly"

\* The local didRenderTooFewHooks of renderWithHooks: the cursor stands on a
\* committed hook that has a successor.  Nothing reads it.
didRenderTooFewHooks(w) ==
  /\ w.currentHook # 0
  /\ w.currentHook
       < Len(w.fibers[w.fibers[w.currentlyRenderingFiber].alternate]
               .memoizedState)

\* renderWithHooks after the last call of Component.
renderWithHooksExit(w) ==
  [w EXCEPT !.renderLanes = NoLanes,
            !.currentlyRenderingFiber = "none",
            !.currentHook = 0,
            !.workInProgressHook = 0,
            !.didScheduleRenderPhaseUpdate = FALSE]

\* Faulty variant of bailoutHooks: the effect flags are left on the fiber.
bailoutHooks_keepsFlags(w, cur, workInProgress, lanes) ==
  [w EXCEPT
     !.fibers[workInProgress].updateQueue = w.fibers[cur].updateQueue,
     !.fibers[cur].lanes = removeLanes(@, lanes)]

bailoutHooks(w, cur, workInProgress, lanes) ==
  [w EXCEPT
     !.fibers[workInProgress].updateQueue = w.fibers[cur].updateQueue,
     !.fibers[workInProgress].flags = @ \ (PassiveEffect \cup UpdateEffect),
     !.fibers[cur].lanes = removeLanes(@, lanes)]

resetHooksAfterThrow(w) ==
  LET f == w.currentlyRenderingFiber
      list == w.fibers[f].memoizedState
      Q == {list[i].queue : i \in 1..Len(list)} \ {0}
      w1 == IF w.didScheduleRenderPhaseUpdate
            THEN [w EXCEPT
                    !.queues = [q \in DOMAIN w.queues |->
                                  IF q \in Q
                                  THEN [w.queues[q] EXCEPT !.pending = 0]
                                  ELSE w.queues[q]],
                    !.didScheduleRenderPhaseUpdate = FALSE]
            ELSE w
  IN [w1 EXCEPT !.renderLanes = NoLanes,
                !.currentlyRenderingFiber = "none",
                !.currentHook = 0,
                !.workInProgressHook = 0,
                !.didScheduleRenderPhaseUpdateDuringThisPass = FALSE]

\* The effects of the circular list ending at `last`, first to last.
RECURSIVE EffectsFrom(_, _, _)
EffectsFrom(e, i, last) ==
  IF i = last \/ e[i].next = 0 THEN <<i>>
  ELSE <<i>> \o EffectsFrom(e, e[i].next, last)
EffectList(w, f) ==
  LET uq == w.fibers[f].updateQueue
  IN IF uq = 0 \/ w.fqs[uq].lastEffect = 0 THEN <<>>
     ELSE EffectsFrom(w.effects, w.effects[w.fqs[uq].lastEffect].next,
                      w.fqs[uq].lastEffect)

\* The commit: every effect with HasEffect runs, its create standing for the
\* cleanup it returns; the work-in-progress fiber becomes the committed one.
commitHookEffects(w, f) ==
  LET ids == {EffectList(w, f)[i] : i \in 1..Len(EffectList(w, f))}
  IN [w EXCEPT
        !.effects = [i \in DOMAIN w.effects |->
                       IF i \in ids /\ HookHasEffect \subseteq w.effects[i].tag
                       THEN [w.effects[i] EXCEPT !.destroy = w.effects[i].create]
                       ELSE w.effects[i]]]

\* ------------------------------------------- the effects of useMutableSource
\* A component whose first primitive is useMutableSource has the hook of the
\* source first in its list, the state hook second, and the two effects first
\* in its effect list.
markRootMutableRead(w, lane) ==
  [w EXCEPT !.root.mutableReadLanes = mergeLanes(@, lane)]

\* The refs object is shared by every version of the hook.
setRefs(w, refs) ==
  [w EXCEPT !.fibers =
     [f \in DOMAIN w.fibers |->
        IF w.fibers[f].memoizedState = <<>> THEN w.fibers[f]
        ELSE [w.fibers[f] EXCEPT !.memoizedState[1].memoizedState.refs = refs]]]

\* The last part of the first effect: the source has another version than
\* the one rendered with.
syncEffectCheck(w, q, snapshot, maybeNewSnapshot, lane) ==
  IF is(snapshot, maybeNewSnapshot) THEN w
  ELSE markRootMutableRead(
         dispatchAction(w, w.queues[q].fiber, q, maybeNewSnapshot, lane),
         lane)

\* The body of the first effect, run after the commit of fiber f.
syncEffect(w, f, lane) ==
  LET memoizedState == w.fibers[f].memoizedState[1].memoizedState
      stateHook == w.fibers[f].memoizedState[2]
      getSnapshot == w.effects[EffectList(w, f)[1]].deps.list[1]
      w1 == setRefs(w, [getSnapshot |-> getSnapshot,
                        setSnapshot |-> stateHook.queue])
  IN IF is(memoizedState.version, w.source.version) THEN w1
     ELSE syncEffectCheck(w1, stateHook.queue, stateHook.memoizedState,
                          <<w.source.value>>, lane)

\* The effects of fiber f that the commit is about to run.
HasEffectAt(w, f, i) ==
  /\ Len(EffectList(w, f)) >= i
  /\ HookHasEffect \subseteq w.effects[EffectList(w, f)[i]].tag

\* The commit of a fiber whose first primitive is useMutableSource: the
\* bodies of its effects run.  The second effect hands handleChange to the
\* subscribe function; that it has run is what its effect record shows.
commitMutableSourceEffects(w, f, lane) ==
  IF HasEffectAt(w, f, 1)
  THEN commitHookEffects(syncEffect(w, f, lane), f)
  ELSE commitHookEffects(w, f)

\* Faulty variant of handleChange: an error of the snapshot function is
\* swallowed.
handleChange_swallows(w, refs, r, lane) ==
  IF r.threw THEN w
  ELSE markRootMutableRead(
         dispatchAction(w, w.queues[refs.setSnapshot].fiber,
                        refs.setSnapshot, <<r.snapshot>>, lane),
         lane)

\* handleChange, called by the store; r is what latestGetSnapshot gives.
\* Calling a null setSnapshot throws in the try block and again in the catch
\* block, which lets the error out.
handleChange(w, refs, r, lane) ==
  LET latestSetSnapshot == refs.setSnapshot
  IN IF latestSetSnapshot = 0
     THEN [w EXCEPT !.trace.change.escaped = TRUE]
     ELSE IF ~r.threw
     THEN markRootMutableRead(
            dispatchAction(w, w.queues[latestSetSnapshot].fiber,
                           latestSetSnapshot, <<r.snapshot>>, lane),
            lane)
     ELSE dispatchAction(w, w.queues[latestSetSnapshot].fiber,
                         latestSetSnapshot, Thrower(r.error), lane)

\* --------------------------------------------------------------- ReactLazy
\* lazy(ctor): the lazy type with its fresh payload.
lazy(ctor) ==
  [payload |-> [status |-> -1, result |-> ctor], init |-> "lazyInitializer"]

\* What the constructor returns, and what it may throw.
Thenable == "thenable"
CtorError == "CtorError"

\* The first callback passed to thenable.then.
onFulfilled(p, moduleObject) ==
  IF p.status = Pending
  THEN [p EXCEPT !.status = Resolved, !.result = moduleObject.default]
  ELSE p

\* Faulty variant of onRejected: the status is not looked at.
onRejected_unguarded(p, error) ==
  [p EXCEPT !.status = Rejected, !.result = error]

\* The second callback passed to thenable.then.
onRejected(p, error) ==
  IF p.status = Pending
  THEN [p EXCEPT !.status = Rejected, !.result = error]
  ELSE p

\* A thenable may call a callback before `then` returns.  settle is what it
\* does inside `then`: nothing, or one call of a callback with a value.
Settle(p, settle) ==
  CASE settle.kind = "none" -> p
    [] settle.kind = "fulfil" -> onFulfilled(p, settle.moduleObject)
    [] settle.kind = "reject" -> onRejected(p, settle.error)

\* The body of lazyInitializer up to its last statement.  ctorThrows: the
\* call of the constructor throws instead of returning a thenable.  The
\* result is the payload and whether the body was left by that throw.
lazyInitializerBody(p, ctorThrows, settle) ==
  IF p.status = Uninitialized
  THEN IF ctorThrows THEN [payload |-> p, threw |-> TRUE, ctor |-> TRUE]
       ELSE [payload |-> Settle([p EXCEPT !.status = Pending,
                                          !.result = Thenable], settle),
             threw |-> FALSE, ctor |-> TRUE]
  ELSE [payload |-> p, threw |-> FALSE, ctor |-> FALSE]

\* What the call hands its caller: the result returned, or a value thrown.
lazyInitializerOutcome(b) ==
  IF b.threw THEN [threw |-> TRUE, value |-> CtorError]
  ELSE IF b.payload.status = Resolved
  THEN [threw |-> FALSE, value |-> b.payload.result]
  ELSE [threw |-> TRUE, value |-> b.payload.result]

\* What the properties remember: the calls of lazyInitializer and of the
\* constructor, the constructor calls that threw, whether `then` was given
\* the callbacks, the callback calls, the outcome of the last call with the
\* payload as that call left it, and every value the payload has had.
NoLazyTrace ==
  [calls |-> 0, ctorCalls |-> 0, ctorThrows |-> 0, registered |-> FALSE,
   settles |-> 0, last |-> [threw |-> FALSE, value |-> "none"],
   at |-> lazy("ctor").payload, history |-> <<lazy("ctor").payload>>]

\* The payloads of h followed by those the payload was on going from p to
\* q: the pending one if the constructor returned, then q if a callback wrote
\* to the payload.
HistoryAfter(h, p, q) ==
  LET h1 == IF p.status = Uninitialized /\ q.status # Uninitialized
            THEN Append(h, [status |-> Pending, result |-> Thenable]) ELSE h
  IN IF q # h1[Len(h1)] THEN Append(h1, q) ELSE h1

ModuleObjects == {[default |-> "C1"], [default |-> "C2"]}
LazyErrors == {"E1", "E2"}
NoSettlement == [kind |-> "none", moduleObject |-> [default |-> "none"], error |-> "none"]
Settlements ==
  {NoSettlement} \cup
  {[NoSettlement EXCEPT !.kind = "fulfil", !.moduleObject = m] : m \in ModuleObjects} \cup
  {[NoSettlement EXCEPT !.kind = "reject", !.error = e] : e \in LazyErrors}

\* ------------------------------------------------------------------ inputs
DepValues == {"a", "b"}
DepsInputs ==
  {NullDeps} \cup
  {Deps(l) : l \in UNION {[1..n -> DepValues] : n \in 0..MaxDeps}}

\* The arguments the component may pass to a primitive of the given kind; c is
\* the component, c.reducers the reducer functions it passes to useReducer.
InputsFor(c, kind) ==
  IF kind = "reducer"
  THEN {[reducer |-> r, deps |-> NullDeps] : r \in c.reducers}
  ELSE {[reducer |-> NoReducer, deps |-> d] : d \in c.deps}

InputSeqs(c) ==
  {ins \in [1..Len(c.hooks) ->
              UNION {InputsFor(c, k) : k \in {"reducer", "memo"}}] :
     \A i \in 1..Len(c.hooks) : ins[i] \in InputsFor(c, c.hooks[i])}

RenderLaneSets == (SUBSET LaneBits) \ {{}}
UpdateLanes == {{b} : b \in LaneBits}

NoWalk ==
  [updates |-> <<>>, lanes |-> NoLanes, reducer |-> NoReducer,
   baseState |-> NullState, hook |-> 0]

\* What the properties remember of a finished render attempt.
NoAttempt ==
  [lanes |-> NoLanes, logLen |-> 0, walk |-> NoWalk, committed |-> FALSE,
   state |-> NullState]

NoFiber == [lanes |-> NoLanes, flags |-> {}]

InitTrace ==
  [scheduled |-> 0, skippedLanes |-> NoLanes, didReceiveUpdate |-> FALSE,
   eagerBailouts |-> 0, walk |-> NoWalk, out |-> <<>>, creates |-> 0,
   invocations |-> 0, passInvocations |-> 0, log |-> <<>>, renders |-> 0,
   lanes |-> NoLanes, reducers |-> {}, bailedOut |-> FALSE,
   last |-> NoAttempt, prev |-> NoAttempt, covered |-> TRUE, rebased |-> FALSE,
   discarded |-> FALSE, passScheduled |-> 0, createsBefore |-> 0,
   ins |-> <<>>, beforeBailout |-> NoFiber, calls |-> 0, first |-> "none",
   later |-> {}, outside |-> 0, outsideKind |-> "none", base |-> 0,
   tooFew |-> FALSE, selfUpdate |-> FALSE,
   change |-> [calls |-> 0, threw |-> FALSE, error |-> "none", queue |-> 0,
               pending |-> <<>>, escaped |-> FALSE]]

\* The walk passed over an update whose lane the attempt did not include and
\* then applied a later one.
SkippedThenApplied(walk) ==
  \E i, j \in 1..Len(walk.updates) :
    /\ i < j
    /\ ~isSubsetOfLanes(walk.lanes, walk.updates[i].lane)
    /\ isSubsetOfLanes(walk.lanes, walk.updates[j].lane)

\* renderWithHooks from entry to return for a component that schedules no
\* render-phase update: one invocation under the first dispatcher.
renderWithHooksOnce(w, c, cur, wip, nextRenderLanes, ins) ==
  renderWithHooksExit(
    Component(FirstDispatcher(w, cur),
              renderWithHooksEnter(createWorkInProgress(w, cur, wip), wip,
                                   nextRenderLanes),
              c.hooks, ins, FALSE))

\* The shadow run: the same dispatches and the committed attempts only.
\* shadow.w is its world, shadow.current its committed fiber, shadow.next its
\* world after the attempt in progress.
NoShadow == [on |-> FALSE]

ShadowWip(sh) == Other(sh.current)

ShadowRender(sh, c, nextRenderLanes, ins) ==
  IF ~sh.on THEN sh
  ELSE [sh EXCEPT
          !.next = renderWithHooksOnce(
                     [sh.w EXCEPT !.trace.didReceiveUpdate = FALSE,
                                  !.trace.walk = NoWalk],
                     c, sh.current, ShadowWip(sh), nextRenderLanes, ins)]

ShadowCommit(sh, w, wip) ==
  IF ~sh.on
  THEN [on |-> TRUE, w |-> [w EXCEPT !.trace = InitTrace], current |-> wip,
        next |-> [w EXCEPT !.trace = InitTrace]]
  ELSE [sh EXCEPT !.w = commitHookEffects(sh.next, ShadowWip(sh)),
                  !.next = commitHookEffects(sh.next, ShadowWip(sh)),
                  !.current = ShadowWip(sh)]

ShadowDispatch(sh, q, action, lane) ==
  IF ~sh.on THEN sh
  ELSE [sh EXCEPT
          !.w = dispatchAction(sh.w, sh.w.queues[q].fiber, q, action, lane),
          !.next = dispatchAction(sh.next, sh.next.queues[q].fiber, q, action,
                                  lane)]

ShadowDiscard(sh) == [sh EXCEPT !.next = sh.w]

\* How many renders after the first the work loop makes of component c.
RenderBudget(c) == c.budget

\* The flags the reconciler has put on the work-in-progress fiber before
\* renderWithHooks is entered.
markFiberFlags(w, workInProgress, flags) ==
  [w EXCEPT !.fibers[workInProgress].flags = flags]

\* The dependency lists areHookInputsEqual is applied to: arrays of up to
\* MaxInputs values, NaN among them; the stored list may also be null.
InputValues == {"a", "b", NaN}
InputLists ==
  {Deps(l) : l \in UNION {[1..n -> InputValues] : n \in 0..MaxInputs}}

\* ------------------------------------------------------------------ actions
InitWith(c) ==
  /\ heap = <<>>
  /\ queues = <<>>
  /\ effects = <<>>
  /\ fqs = <<>>
  /\ fibers = [f \in {"A", "B"} |-> NewFiber]
  /\ current = "none"
  /\ renderLanes = NoLanes
  /\ currentlyRenderingFiber = "none"
  /\ currentHook = 0
  /\ workInProgressHook = 0
  /\ didScheduleRenderPhaseUpdate = FALSE
  /\ didScheduleRenderPhaseUpdateDuringThisPass = FALSE
  /\ ReactCurrentDispatcher = "ContextOnly"
  /\ numberOfReRenders = 0
  /\ children = [invocation |-> 0, values |-> <<>>]
  /\ err = "none"
  /\ pc = "idle"
  /\ component = c
  /\ trace = InitTrace
  /\ shadow = NoShadow
  /\ source = createMutableSource
  /\ root = [mutableReadLanes |-> NoLanes]
  /\ sourceTrace = [passes |-> 0, reads |-> <<>>]
  /\ payload = lazy("ctor").payload
  /\ lazyTrace = NoLazyTrace

\* The work loop begins work on the component: renderWithHooks is entered.
\* The mount render is free; MaxRenders bounds the renders of the mounted
\* component.
RenderBeginInstall(w, nextRenderLanes) ==
  /\ Install(renderWithHooksEnter(w, Wip, nextRenderLanes))
  /\ ReactCurrentDispatcher' = FirstDispatcher(w, current)

RenderBeginFiber(w, cur, wip, flags) ==
  markFiberFlags(createWorkInProgress(w, cur, wip), wip, flags)

RenderBegin ==
  /\ source' = resetWorkInProgressVersions(source)
  /\ UNCHANGED <<root, sourceTrace, payload, lazyTrace>>
  /\ pc = "idle"
  /\ trace.renders <= RenderBudget(component)
  /\ \E nextRenderLanes \in component.lanes :
     \E flags \in component.flags :
       RenderBeginInstall(
         RenderBeginFiber(
           [World EXCEPT
              !.err = "none",
              !.trace.renders = @ + 1,
              !.trace.passScheduled = 0,
              !.trace.createsBefore = trace.creates,
              !.trace.lanes = nextRenderLanes,
              !.trace.covered =
                 @ /\ \A i \in 1..Len(trace.log) :
                        isSubsetOfLanes(nextRenderLanes, trace.log[i].lane),
              !.trace.skippedLanes = NoLanes,
              !.trace.didReceiveUpdate = FALSE,
              !.trace.bailedOut = FALSE,
              !.trace.walk = NoWalk,
              !.trace.passInvocations = 0],
           current, Wip, flags),
         nextRenderLanes)
  /\ numberOfReRenders' = 0
  /\ pc' = "component"
  /\ UNCHANGED <<current, children, component, shadow>>

\* The length of the list an invocation under the Update or Rerender table
\* reads its hooks from: the committed list, or the work-in-progress list
\* left by the previous pass when there is no committed hook.
BaseListLen ==
  IF current = "none" \/ fibers[current].memoizedState = <<>>
  THEN Len(fibers[currentlyRenderingFiber].memoizedState)
  ELSE Len(fibers[current].memoizedState)

\* One invocation of the component function by renderWithHooks.
ComponentCallInstall(w) ==
  /\ Install([w EXCEPT !.trace.passScheduled =
                         IF w.didScheduleRenderPhaseUpdateDuringThisPass
                         THEN @ + 1 ELSE @])
  /\ source' = w.source
  /\ children' = IF w.err = "none"
                 THEN [invocation |-> w.trace.invocations,
                       values |-> w.trace.out]
                 ELSE children
  /\ pc' = IF w.err = "none" THEN "returned" ELSE "threw"

\* early: the queue of a committed hook whose dispatch function the component
\* calls before its hook calls (0: none); fail: the component throws at the
\* end of its body.
ComponentCallWith(early, fail) ==
  /\ UNCHANGED <<root, sourceTrace, payload, lazyTrace>>
  /\ pc = "component"
  /\ \E ins \in InputSeqs(component) :
     \E n \in component.counts :
     \E selfUpdate \in IF trace.passScheduled < component.selfUpdates
                       THEN BOOLEAN ELSE {FALSE} :
       /\ ComponentCallInstall(
         ComponentThrow(
           Component(ReactCurrentDispatcher,
                   ComponentEarlyUpdate(
                     [World EXCEPT
                      !.trace.ins = ins,
                      !.trace.calls = n,
                      !.trace.selfUpdate = selfUpdate,
                      !.trace.base = BaseListLen,
                      !.trace.first = IF trace.passInvocations = 0
                                      THEN ReactCurrentDispatcher ELSE @,
                      !.trace.later = IF trace.passInvocations = 0 THEN {}
                                      ELSE @ \cup {ReactCurrentDispatcher},
                      !.trace.reducers =
                         @ \cup ({ins[i].reducer : i \in 1..Len(ins)}
                                   \ {NoReducer})],
                     early),
                   SubSeq(component.hooks, 1, n), ins, selfUpdate),
           fail))
       /\ shadow' = IF ~component.shadow THEN shadow
                    ELSE ShadowRender(shadow, component, renderLanes, ins)
  /\ UNCHANGED <<current, ReactCurrentDispatcher, numberOfReRenders, component>>

\* A component that dispatches only after its hook calls and does not throw.
ComponentCall == ComponentCallWith(0, FALSE)

\* A component that may also dispatch to a committed queue before its hook
\* calls, and may throw.
ComponentCallFree ==
  \E early \in {0} \cup
                (IF current # "none" /\ trace.passScheduled < component.selfUpdates
                 THEN {fibers[current].memoizedState[i].queue :
                         i \in 1..Len(fibers[current].memoizedState)}
                 ELSE {}) :
  \E fail \in BOOLEAN :
    ComponentCallWith(early, fail)

\* A render-phase update was scheduled during the pass: loop.
RenderAgainInstall(w) ==
  /\ Install(w)
  /\ IF w.err = "none"
     THEN /\ numberOfReRenders' = numberOfReRenders + 1
          /\ ReactCurrentDispatcher' = "Rerender"
          /\ pc' = "component"
     ELSE /\ pc' = "threw"
          /\ UNCHANGED <<numberOfReRenders, ReactCurrentDispatcher>>

RenderAgain ==
  /\ UNCHANGED sourceVars
  /\ pc = "returned"
  /\ didScheduleRenderPhaseUpdateDuringThisPass
  /\ RenderAgainInstall(renderWithHooksAgain(World))
  /\ UNCHANGED <<current, children, component, shadow>>

\* No render-phase update during the pass: renderWithHooks returns children.
RenderEnd ==
  /\ UNCHANGED sourceVars
  /\ pc = "returned"
  /\ ~didScheduleRenderPhaseUpdateDuringThisPass
  /\ Install([renderWithHooksExit(World) EXCEPT
                !.trace.tooFew = didRenderTooFewHooks(World),
                !.trace.prev = trace.last,
                !.trace.last = [lanes |-> trace.lanes,
                                logLen |-> Len(trace.log),
                                walk |-> trace.walk,
                                committed |-> FALSE,
                                state |-> children.values]])
  /\ ReactCurrentDispatcher' =
       renderWithHooksExitDispatcher(ReactCurrentDispatcher)
  /\ pc' = "rendered"
  /\ UNCHANGED <<current, numberOfReRenders, children, component, shadow>>

\* The work loop's catch handler.
ResetHooksAfterThrow ==
  /\ UNCHANGED sourceVars
  /\ pc = "threw"
  /\ Install(resetHooksAfterThrow(World))
  /\ ReactCurrentDispatcher' =
       resetHooksAfterThrowDispatcher(ReactCurrentDispatcher)
  /\ pc' = "idle"
  /\ UNCHANGED <<current, numberOfReRenders, children, component, shadow>>

\* The component did not receive an update: beginWork bails out, in the same
\* task as renderWithHooks (no event handler runs in between).
BailoutHooks ==
  /\ UNCHANGED sourceVars
  /\ pc = "rendered"
  /\ current # "none"
  /\ trace.last.logLen = Len(trace.log)
  /\ ~trace.didReceiveUpdate
  /\ ~trace.bailedOut
  /\ Install([bailoutHooks(World, current, Wip, trace.lanes) EXCEPT
                !.trace.bailedOut = TRUE,
                !.trace.beforeBailout = [lanes |-> fibers[current].lanes,
                                         flags |-> fibers[Wip].flags]])
  /\ UNCHANGED <<current, ReactCurrentDispatcher, numberOfReRenders, children,
                 pc, component, shadow>>

\* The effects the commit of fiber f runs; lane is what requestUpdateLane
\* gives an effect that dispatches.
CommitEffects(w, f, lane) ==
  IF /\ component.hooks # <<>>
     /\ Head(component.hooks) = "mutableSource"
     /\ Len(w.fibers[f].memoizedState) >= 2
  THEN commitMutableSourceEffects(w, f, lane)
  ELSE commitHookEffects(w, f)

CommitInstall(w) ==
  /\ Install([w EXCEPT !.trace.last.committed = TRUE,
                       !.trace.rebased = @ \/ SkippedThenApplied(trace.walk)])
  /\ root' = w.root

\* The finished work-in-progress tree is committed.
Commit ==
  /\ UNCHANGED <<source, sourceTrace, payload, lazyTrace>>
  /\ pc = "rendered"
  /\ \E lane \in UpdateLanes : CommitInstall(CommitEffects(World, Wip, lane))
  /\ shadow' = IF ~component.shadow THEN shadow
               ELSE ShadowCommit(shadow, commitHookEffects(World, Wip), Wip)
  /\ current' = Wip
  /\ pc' = "idle"
  /\ UNCHANGED <<ReactCurrentDispatcher, numberOfReRenders, children, component>>

\* The finished work-in-progress tree of a mounted component is thrown away.
Discard ==
  /\ UNCHANGED sourceVars
  /\ pc = "rendered"
  /\ current # "none"
  /\ pc' = "idle"
  /\ shadow' = IF ~component.shadow THEN shadow ELSE ShadowDiscard(shadow)
  /\ trace' = [trace EXCEPT !.discarded = TRUE]
  /\ UNCHANGED <<heap, queues, effects, fqs, fibers, current, renderLanes,
                 currentlyRenderingFiber, currentHook, workInProgressHook,
                 didScheduleRenderPhaseUpdate,
                 didScheduleRenderPhaseUpdateDuringThisPass,
                 ReactCurrentDispatcher, numberOfReRenders, children, err,
                 component>>

\* An event handler calls the dispatch function of a committed hook.
DispatchInstall(w, q, action, lane) ==
  /\ q # 0
  /\ Install(dispatchAction(
               [w EXCEPT !.trace.log =
                            Append(@, [lane |-> lane, action |-> action,
                                       queue |-> q])],
               w.queues[q].fiber, q, action, lane))

DispatchUpTo(limit) ==
  /\ UNCHANGED sourceVars
  /\ pc \in {"idle", "rendered"}
  /\ current # "none"
  /\ Len(trace.log) < limit
  /\ \E i \in 1..Len(fibers[current].memoizedState) :
     \E lane \in UpdateLanes :
     \E action \in {0, Len(trace.log) + 1} :
       /\ DispatchInstall(World, fibers[current].memoizedState[i].queue,
                          action, lane)
       /\ shadow' = ShadowDispatch(shadow,
                                   fibers[current].memoizedState[i].queue,
                                   action, lane)
  /\ UNCHANGED <<current, ReactCurrentDispatcher, numberOfReRenders, children,
                 pc, component>>

Dispatch == DispatchUpTo(MaxDispatch)

\* The same with the smaller number of dispatches of the scenario of aborted
\* renders.
DispatchFew == DispatchUpTo(MaxAbortDispatch)

\* What the snapshot function gives the change handler: the value of the
\* source, or an error.
SnapshotErrors == {"E1", "E2"}
SnapshotResults ==
  {[threw |-> FALSE, snapshot |-> source.value, error |-> "none"]} \cup
  {[threw |-> TRUE, snapshot |-> NoSnapshot, error |-> e] :
     e \in SnapshotErrors}

\* The second effect of the committed fiber has run: the subscribe function
\* holds handleChange.
Subscribed ==
  /\ current # "none"
  /\ Len(EffectList(World, current)) >= 2
  /\ effects[EffectList(World, current)[2]].destroy # 0

CommittedRefs == fibers[current].memoizedState[1].memoizedState.refs

HandleChangeInstall(w) ==
  /\ Install(w)
  /\ root' = w.root

\* The store calls the change handler it was given.
HandleChange ==
  /\ UNCHANGED <<source, sourceTrace, payload, lazyTrace>>
  /\ pc \in {"idle", "rendered"}
  /\ Subscribed
  /\ trace.change.calls < MaxChanges
  /\ \E lane \in UpdateLanes :
     \E r \in SnapshotResults :
       HandleChangeInstall(
         handleChange(
           [World EXCEPT
              !.trace.change =
                 [calls |-> @.calls + 1, threw |-> r.threw,
                  error |-> r.error, queue |-> CommittedRefs.setSnapshot,
                  pending |-> ListOf(heap,
                                     queues[CommittedRefs.setSnapshot].pending),
                  escaped |-> FALSE]],
           CommittedRefs, r, lane))
  /\ UNCHANGED <<current, ReactCurrentDispatcher, numberOfReRenders, children,
                 pc, component, shadow>>

\* Code outside a render (an event handler, a timer) calls an operation of
\* the active dispatcher table; what the call throws goes to that caller.
CallOutsideRender ==
  /\ UNCHANGED sourceVars
  /\ pc \in {"idle", "rendered"}
  /\ trace.outside < MaxOutsideCalls
  /\ \E kind \in Primitives :
     \E in \in InputsFor(component, kind) :
       Install(UseHook(ReactCurrentDispatcher,
                       [World EXCEPT !.err = "none",
                                     !.trace.outside = @ + 1,
                                     !.trace.outsideKind = kind],
                       kind, in, 0))
  /\ UNCHANGED <<current, ReactCurrentDispatcher, numberOfReRenders, children,
                 pc, component, shadow>>

\* ------------------------------------------------- mutable source actions
hookVars ==
  <<heap, queues, effects, fqs, fibers, current, currentlyRenderingFiber,
    currentHook, workInProgressHook, didScheduleRenderPhaseUpdate,
    didScheduleRenderPhaseUpdateDuringThisPass, ReactCurrentDispatcher,
    numberOfReRenders, children, component, trace, shadow, payload,
    lazyTrace>>

\* A render pass over components that read the source begins.
SourcePassBegin ==
  /\ pc = "idle"
  /\ sourceTrace.passes < MaxPasses
  /\ \E nextRenderLanes \in RenderLaneSets : renderLanes' = nextRenderLanes
  /\ source' = resetWorkInProgressVersions(source)
  /\ sourceTrace' = [passes |-> sourceTrace.passes + 1, reads |-> <<>>]
  /\ err' = "none"
  /\ pc' = "reading"
  /\ UNCHANGED <<root, hookVars>>

\* A component of the pass reads the source before it has subscribed.
SourceReadInstall(r) ==
  /\ source' = r.source
  /\ sourceTrace' = [sourceTrace EXCEPT
                       !.reads = Append(@, [version |-> source.version,
                                            threw |-> r.threw,
                                            snapshot |-> r.snapshot,
                                            recorded |->
                                              getWorkInProgressVersion(r.source),
                                            dirty |-> r.source.dirty])]
  /\ err' = IF r.threw THEN "Tearing" ELSE err
  /\ pc' = IF r.threw THEN "threw" ELSE pc

SourceRead ==
  /\ pc = "reading"
  /\ Len(sourceTrace.reads) < MaxReads
  /\ SourceReadInstall(readFromUnsubcribedMutableSource(root, source,
                                                        renderLanes))
  /\ UNCHANGED <<root, renderLanes, hookVars>>

\* The store is mutated: its version changes; a subscribed hook, if there is
\* one, marks the root with the lane of its update.
SourceMutate ==
  /\ source.version < MaxMutations
  /\ \E value \in SourceValues :
       source' = [source EXCEPT !.version = @ + 1, !.value = value]
  /\ \E lanes \in {NoLanes} \cup UpdateLanes :
       root' = [root EXCEPT !.mutableReadLanes = mergeLanes(@, lanes)]
  /\ UNCHANGED <<sourceTrace, renderLanes, err, pc, hookVars>>

\* The pass completes and its lanes are committed.
SourcePassEnd ==
  /\ pc = "reading"
  /\ root' = [root EXCEPT !.mutableReadLanes = removeLanes(@, renderLanes)]
  /\ renderLanes' = NoLanes
  /\ pc' = "idle"
  /\ UNCHANGED <<source, sourceTrace, err, hookVars>>

\* ------------------------------------------------- what the properties read
\* The dispatched actions, in dispatch order, and the lanes they were given.
LogActions == [i \in 1..Len(trace.log) |-> trace.log[i].action]

LogLanes == UNION {trace.log[i].lane : i \in 1..Len(trace.log)}

\* The reducer hook of the work-in-progress fiber after an update attempt.
WipReducerHook == fibers[Wip].memoizedState[1]

\* An update attempt has returned and nothing was dispatched since.
UpdateAttemptDone ==
  /\ pc = "rendered"
  /\ current # "none"
  /\ trace.last.logLen = Len(trace.log)

\* What a walk applied and what it passed over, in queue order.
WalkApplied(walk) ==
  SelectSeq(walk.updates, LAMBDA u : isSubsetOfLanes(walk.lanes, u.lane))

WalkSkipped(walk) ==
  SelectSeq(walk.updates, LAMBDA u : ~isSubsetOfLanes(walk.lanes, u.lane))

ActionsOf(updates) == [i \in 1..Len(updates) |-> updates[i].action]

\* An update without its list pointer.
UpdateFields(u) ==
  [lane |-> u.lane, action |-> u.action, eagerReducer |-> u.eagerReducer,
   eagerState |-> u.eagerState]

FieldsOf(updates) == [i \in 1..Len(updates) |-> UpdateFields(updates[i])]

\* The updates of a circular list of heap h, first to last.
UpdatesOf(h, last) == [i \in 1..Len(ListOf(h, last)) |-> h[ListOf(h, last)[i]]]

\* The lane and the action of each update.
DispatchedOf(updates) ==
  [i \in 1..Len(updates) |->
     [lane |-> updates[i].lane, action |-> updates[i].action]]

\* What a reducer hook holds: its states and the updates not yet consumed
\* (the eager fields of an update are a cache and are left out).
HookView(h, qs, hook) ==
  [memoizedState |-> hook.memoizedState,
   baseState |-> hook.baseState,
   baseQueue |-> DispatchedOf(UpdatesOf(h, hook.baseQueue)),
   pending |-> DispatchedOf(UpdatesOf(h, qs[hook.queue].pending))]

\* The state of the committed reducer hook.
CommittedState ==
  IF current = "none" THEN InitialState
  ELSE fibers[current].memoizedState[1].memoizedState

\* The one hook of a component of SpecDeps: its kind, the dependency list the
\* finished update render passed it and the one stored by the committed hook.
DepsKind == component.hooks[1]

DepsNext == trace.ins[1].deps

DepsCommittedHook == fibers[current].memoizedState[1]

DepsPrev ==
  IF DepsKind \in {"memo", "callback"}
  THEN DepsCommittedHook.memoizedState[2]
  ELSE effects[DepsCommittedHook.memoizedState].deps

SameInputs(nextDeps, prevDeps) ==
  /\ ~nextDeps.null
  /\ ~prevDeps.null
  /\ Len(nextDeps.list) = Len(prevDeps.list)
  /\ \A i \in 1..Len(nextDeps.list) : nextDeps.list[i] = prevDeps.list[i]

SomeInputDiffers(nextDeps, prevDeps) ==
  /\ ~nextDeps.null
  /\ ~prevDeps.null
  /\ \E i \in 1..Len(nextDeps.list) :
       i <= Len(prevDeps.list) /\ nextDeps.list[i] # prevDeps.list[i]

DepsHookFlags == IF DepsKind = "effect" THEN HookPassive ELSE HookLayout

\* The effect pushed by the finished render of a component with one hook.
PushedEffect == effects[Len(effects)]

\* The creator was not run: the stored value or callback is handed back and
\* kept, the effect is pushed without HasEffect.
CreatorSkipped ==
  CASE DepsKind = "memo" ->
         /\ trace.creates = trace.createsBefore
         /\ children.values = <<DepsCommittedHook.memoizedState[1]>>
         /\ fibers[Wip].memoizedState[1].memoizedState
              = DepsCommittedHook.memoizedState
    [] DepsKind = "callback" ->
         /\ children.values = <<DepsCommittedHook.memoizedState[1]>>
         /\ fibers[Wip].memoizedState[1].memoizedState
              = DepsCommittedHook.memoizedState
    [] OTHER ->
         /\ PushedEffect.tag = DepsHookFlags
         /\ ~(HookHasEffect \subseteq PushedEffect.tag)
         /\ PushedEffect.deps = DepsNext
         /\ EffectList(World, Wip) = <<Len(effects)>>

\* The creator was run: a new value is computed, the new callback is stored,
\* the effect is pushed with HasEffect.
CreatorRun ==
  CASE DepsKind = "memo" ->
         /\ trace.creates = trace.createsBefore + 1
         /\ children.values = <<trace.invocations>>
         /\ fibers[Wip].memoizedState[1].memoizedState
              = <<trace.invocations, DepsNext>>
    [] DepsKind = "callback" ->
         /\ children.values = <<trace.invocations>>
         /\ fibers[Wip].memoizedState[1].memoizedState
              = <<trace.invocations, DepsNext>>
    [] OTHER ->
         /\ PushedEffect.tag = HookHasEffect \cup DepsHookFlags
         /\ PushedEffect.create = trace.invocations
         /\ PushedEffect.deps = DepsNext
         /\ fibers[Wip].memoizedState[1].memoizedState = Len(effects)
         /\ EffectList(World, Wip) = <<Len(effects)>>

\* The step that calls bailoutHooks, and what the step leaves alone: the
\* update, queue, effect and effect-queue objects.
BailoutStep == ~trace.bailedOut /\ trace.bailedOut'

BailoutKeepsObjects ==
  /\ heap' = heap
  /\ queues' = queues
  /\ effects' = effects
  /\ fqs' = fqs

\* The step that calls a dispatcher operation outside a render, and what the
\* step leaves alone: the fibers with their hook lists, and the update, queue,
\* effect and effect-queue objects.
OutsideCallStep == trace.outside' = trace.outside + 1

OutsideCallKeepsObjects ==
  /\ fibers' = fibers
  /\ heap' = heap
  /\ queues' = queues
  /\ effects' = effects
  /\ fqs' = fqs

\* The step in which an attempt on the mounted component runs the component
\* function, hence its hook primitives.
AttemptStep == pc = "component" /\ pc' # "component" /\ current # "none"

\* The committed hooks before and after the step.
CommittedHooks == fibers[current].memoizedState

CommittedHooksAfter == fibers'[current].memoizedState

\* The step in which the component function runs, and the step in which an
\* event handler dispatches.
ComponentStep == pc = "component" /\ pc' # "component"

EventDispatchStep == Len(trace.log') = Len(trace.log) + 1

\* The update the step appended to the one queue of the component: the new
\* last element of the pending list.
DispatchedUpdate == heap'[queues'[1].pending]

\* What the event handler passed to the dispatch of the step.
Dispatched == trace.log'[Len(trace.log')]

\* Neither the fiber the queue is bound to nor its alternate has pending
\* lanes.
NoPendingLanes ==
  /\ fibers[queues[1].fiber].lanes = NoLanes
  /\ \/ fibers[queues[1].fiber].alternate = "none"
     \/ fibers[fibers[queues[1].fiber].alternate].lanes = NoLanes

\* scheduleUpdateOnFiber was called once in the step, with the lane of the
\* dispatched update.
ScheduledOnce ==
  /\ trace.scheduled' = trace.scheduled + 1
  /\ fibers'[queues[1].fiber].lanes
       = mergeLanes(fibers[queues[1].fiber].lanes, Dispatched.lane)

\* The step in which a component reads the source, and the read it made.
SourceReadStep == Len(sourceTrace.reads') = Len(sourceTrace.reads) + 1

SourceReadMade == sourceTrace.reads'[Len(sourceTrace.reads')]

\* The record the committed useMutableSource hook stores, the state hook that
\* follows it on both lists, and the arguments the invocation of the step
\* passed to useMutableSource.
StoredSource == fibers[current].memoizedState[1].memoizedState

CommittedStateHook == fibers[current].memoizedState[2]

StateHookAfter == fibers'[currentlyRenderingFiber].memoizedState[2]

PassedAfter == trace.ins'[1]

\* One of the three arguments differs in identity from what the previous
\* render stored.
SourceInputsChanged ==
  \/ ~is(StoredSource.refs.getSnapshot, GetSnapshotOf(PassedAfter))
  \/ ~is(StoredSource.source, SourceOf(PassedAfter))
  \/ ~is(StoredSource.subscribe, SubscribeOf(PassedAfter))

\* The updates a render of the mounted component finds for its one reducer
\* hook: the stored base queue, then the pending list.
QueuedUpdates ==
  [i \in 1..Len(ListOf(heap, fibers[current].memoizedState[1].baseQueue)) |->
     heap[ListOf(heap, fibers[current].memoizedState[1].baseQueue)[i]]]
  \o [i \in 1..Len(ListOf(heap, queues[1].pending)) |->
        heap[ListOf(heap, queues[1].pending)[i]]]

\* The dispatches made since the last fold of the queue, oldest first: the
\* fold of an attempt consumes every dispatch made before it.
UnfoldedDispatches ==
  SubSeq(trace.log, trace.last.logLen + 1, Len(trace.log))

\* The pending list of the component's queue, as update ids from
\* pending.next on.
PendingIds == ListOf(heap, queues[1].pending)

\* The stored base queue of the committed reducer hook, as update ids from
\* its first element on, before and after the step.
BaseIds == ListOf(heap, fibers[current].memoizedState[1].baseQueue)

BaseIdsAfter == ListOf(heap', fibers'[current].memoizedState[1].baseQueue)

\* The position of the first update the walk skipped (0: none), and what the
\* walk has to put in the new base queue: from the first skipped update on,
\* a skipped update as it is, an applied one with NoLane.
FirstSkipped(walk) ==
  IF WalkSkipped(walk) = <<>> THEN 0
  ELSE CHOOSE k \in 1..Len(walk.updates) :
         /\ ~isSubsetOfLanes(walk.lanes, walk.updates[k].lane)
         /\ \A i \in 1..(k - 1) :
              isSubsetOfLanes(walk.lanes, walk.updates[i].lane)

ExpectedClones(walk) ==
  IF FirstSkipped(walk) = 0 THEN <<>>
  ELSE [i \in 1..(Len(walk.updates) - FirstSkipped(walk) + 1) |->
          LET u == walk.updates[FirstSkipped(walk) + i - 1]
          IN IF isSubsetOfLanes(walk.lanes, u.lane)
             THEN [UpdateFields(u) EXCEPT !.lane = NoLane]
             ELSE UpdateFields(u)]

\* The reducer hook of the rendering fiber once updateReducer has walked a
\* queue for it.
WalkDone ==
  /\ pc \in {"returned", "rendered"}
  /\ current # "none"
  /\ trace.walk.hook # 0

WalkedHook == fibers[Wip].memoizedState[trace.walk.hook]

\* The step in which updateReducer walks a non-empty queue of the mounted
\* component, the hook it leaves, and the ids of the clones it made: the
\* objects the step added to the heap, in creation order.
WalkStep == ComponentStep /\ current # "none" /\ trace.walk'.hook # 0

WalkedHookAfter == fibers'[Wip].memoizedState[trace.walk'.hook]

ClonesMade == [i \in 1..(Len(heap') - Len(heap)) |-> Len(heap) + i]

\* The lanes of the updates a walk skipped, and whether the base queue that
\* ends at `last` holds an update that carries a lane.
SkippedLanesOf(walk) ==
  UNION {WalkSkipped(walk)[i].lane : i \in 1..Len(WalkSkipped(walk))}

HoldsLane(last) ==
  \E i \in 1..Len(ListOf(heap, last)) : heap[ListOf(heap, last)[i]].lane # NoLane

\* The base queue that ends at `last` holds an update the walk skipped.
HoldsSkipped(last, walk) ==
  \E i \in 1..Len(ListOf(heap, last)) :
  \E j \in 1..Len(WalkSkipped(walk)) :
    UpdateFields(heap[ListOf(heap, last)[i]]) = UpdateFields(WalkSkipped(walk)[j])

\* A step in which the component function runs under the Rerender table and
\* returns.
RerenderStep ==
  /\ pc = "component"
  /\ ReactCurrentDispatcher = "Rerender"
  /\ pc' = "returned"

\* The first hook of the work-in-progress list, before and after a step.
RenderingHook == fibers[currentlyRenderingFiber].memoizedState[1]
RenderingHookAfter == fibers'[currentlyRenderingFiber].memoizedState[1]

\* The actions of the updates in the first queue's pending list, in enqueue
\* order, and the lanes of those updates.
PendingActions == [i \in 1..Len(PendingIds) |-> heap[PendingIds[i]].action]
PendingLanes == {heap[PendingIds[i]].lane : i \in 1..Len(PendingIds)}

\* The updates the first queue's pending list holds after a step.
PendingIdsAfter == ListOf(heap', queues'[1].pending)

\* The state hook of the committed useMutableSource, the updates a render
\* finds for it (the stored base queue, then the pending list), and the errors
\* of the throwing updaters among those whose lane the render includes.
SnapshotHook == fibers[current].memoizedState[2]

SnapshotQueued ==
  ListOf(heap, SnapshotHook.baseQueue)
    \o ListOf(heap, queues[SnapshotHook.queue].pending)

FoldedUpdater(id) ==
  /\ isSubsetOfLanes(renderLanes, heap[id].lane)
  /\ IsThrower(heap[id].action)

FoldedUpdaters == SelectSeq(SnapshotQueued, FoldedUpdater)

\* A step in which the store calls the change handler, and one in which the
\* mounted component is rendered.
HandleChangeStep == trace'.change.calls = trace.change.calls + 1

UpdateRenderStep ==
  /\ pc = "component"
  /\ ReactCurrentDispatcher = "Update"
  /\ pc' # pc

\* k calls of updateWorkInProgressHook in a row, stopping at a failed one.
RECURSIVE Advance(_, _)
Advance(w, k) ==
  IF k = 0 \/ w.err # "none" THEN w
  ELSE updateWorkInProgressHook(Advance(w, k - 1))

\* The committed list and the work-in-progress list an invocation starts
\* with.
CommittedList ==
  IF current = "none" THEN <<>> ELSE fibers[current].memoizedState

RenderingList == fibers[currentlyRenderingFiber].memoizedState

\* What the k-th call has to leave, given the world a after it.
AdvancedTo(a, k) ==
  /\ a.workInProgressHook = k
  /\ a.currentHook = IF k <= Len(CommittedList) THEN k ELSE 0
  /\ IF k <= Len(RenderingList)
     THEN a.fibers[currentlyRenderingFiber].memoizedState = RenderingList
     ELSE /\ Len(a.fibers[currentlyRenderingFiber].memoizedState) = k
          /\ a.fibers[currentlyRenderingFiber].memoizedState[k] =
               [memoizedState |-> CommittedList[k].memoizedState,
                baseState |-> CommittedList[k].baseState,
                baseQueue |-> CommittedList[k].baseQueue,
                queue |-> CommittedList[k].queue]

\* The updates a later render can find: those of the pending lists and those
\* of the committed hooks' base queues, given the heap, the queues and the
\* fibers.
SeqRange(l) == {l[i] : i \in 1..Len(l)}

QueuedIds(h, qs, fs) ==
  UNION {SeqRange(ListOf(h, qs[q].pending)) : q \in DOMAIN qs}
    \cup (IF current = "none" THEN {}
          ELSE UNION {SeqRange(ListOf(h, fs[current].memoizedState[i].baseQueue)) :
                        i \in 1..Len(fs[current].memoizedState)})

\* The invocations of the render in progress, and the actions the component
\* dispatched in them: after its hook calls, and before them.
AttemptInvocations ==
  (trace.invocations - trace.passInvocations + 1)..trace.invocations

LateActions == {0 - i : i \in AttemptInvocations}

EarlyActions == {EarlyAction(i) : i \in AttemptInvocations}

\* The step of the work loop's catch handler.
ResetStep == pc = "threw" /\ pc' = "idle"

\* ---------------------------------------------------------- specifications
\* A component with one reducer hook, updated from event handlers.
Init ==
  InitWith([hooks |-> <<"reducer">>, counts |-> {1}, selfUpdates |-> 0,
            reducers |-> {"R1"}, lanes |-> RenderLaneSets, deps |-> {NullDeps},
            flags |-> {{}}, budget |-> MaxRenders, shadow |-> TRUE, env |-> NoBinding,
            burst |-> 1])

Next ==
  \/ RenderBegin
  \/ ComponentCall
  \/ RenderEnd
  \/ Commit
  \/ Discard
  \/ Dispatch

Spec == Init /\ [][Next]_vars

\* A component with one reducer hook that may dispatch to it while rendering.
InitLoop ==
  InitWith([hooks |-> <<"reducer">>, counts |-> {1},
            selfUpdates |-> RE_RENDER_LIMIT + 1, reducers |-> {"R2"},
            lanes |-> {{1}}, deps |-> {NullDeps}, flags |-> {{}},
            budget |-> MaxLoopRenders, shadow |-> FALSE, env |-> NoBinding,
            burst |-> 1])

NextLoop ==
  \/ RenderBegin
  \/ ComponentCall
  \/ RenderAgain
  \/ RenderEnd
  \/ ResetHooksAfterThrow
  \/ Commit

SpecLoop == InitLoop /\ [][NextLoop]_vars

\* renderWithHooks is synchronous code: once it is entered the component
\* function is called and returns or throws, and the loop condition is
\* evaluated after it.
ComponentReturns == pc = "component" /\ pc' \in {"returned", "threw"}
LoopTurns == pc = "returned" /\ pc' \in {"component", "rendered", "threw"}

SpecLoopFair ==
  /\ SpecLoop
  /\ WF_pc(ComponentReturns)
  /\ WF_pc(LoopTurns)

\* A component with one hook that takes a dependency list.
InitDeps ==
  \E kind \in {"memo", "callback", "effect", "layoutEffect"} :
    InitWith([hooks |-> <<kind>>, counts |-> {1}, selfUpdates |-> 0,
              reducers |-> {}, lanes |-> {{1}}, deps |-> DepsInputs,
              flags |-> {{}}, budget |-> MaxDepsRenders, shadow |-> FALSE, env |-> NoBinding,
            burst |-> 1])

NextDeps ==
  \/ RenderBegin
  \/ ComponentCall
  \/ RenderEnd
  \/ Commit

SpecDeps == InitDeps /\ [][NextDeps]_vars

\* A component with a reducer hook and an effect hook whose renders may bail
\* out.
InitBail ==
  InitWith([hooks |-> <<"reducer", "effect">>, counts |-> {2},
            selfUpdates |-> 0, reducers |-> {"R1"}, lanes |-> {{2}},
            deps |-> {Deps(<<"a">>), Deps(<<"b">>)},
            flags |-> {{}, {"Ref"}},
            budget |-> MaxBailRenders, shadow |-> FALSE, env |-> NoBinding,
            burst |-> 1])

NextBail ==
  \/ RenderBegin
  \/ ComponentCall
  \/ RenderEnd
  \/ BailoutHooks
  \/ Commit
  \/ Dispatch

SpecBail == InitBail /\ [][NextBail]_vars

\* A component whose invocations differ in the number of hooks they call:
\* none, one reducer hook, or two; it may dispatch to its first reducer hook
\* in MaxSelfUpdates invocations of a pass.
InitOrder ==
  InitWith([hooks |-> <<"reducer", "reducer">>, counts |-> {0, 1, 2},
            selfUpdates |-> MaxSelfUpdates, reducers |-> {"R2"},
            lanes |-> {{1}}, deps |-> {NullDeps}, flags |-> {{}},
            budget |-> MaxOrderRenders, shadow |-> FALSE, env |-> NoBinding,
            burst |-> 1])

NextOrder ==
  \/ RenderBegin
  \/ ComponentCall
  \/ RenderAgain
  \/ RenderEnd
  \/ ResetHooksAfterThrow
  \/ Commit

SpecOrder == InitOrder /\ [][NextOrder]_vars

\* The mount of a component that calls one reducer hook or two and may
\* dispatch to the first in every invocation.
InitThrow ==
  InitWith([hooks |-> <<"reducer", "reducer">>, counts |-> {1, 2},
            selfUpdates |-> RE_RENDER_LIMIT + 1, reducers |-> {"R2"},
            lanes |-> {{1}}, deps |-> {NullDeps}, flags |-> {{}},
            budget |-> MaxThrowRenders, shadow |-> FALSE, env |-> NoBinding,
            burst |-> 1])

NextThrow ==
  \/ RenderBegin
  \/ ComponentCall
  \/ RenderAgain
  \/ RenderEnd
  \/ ResetHooksAfterThrow
  \/ Commit

SpecThrow == InitThrow /\ [][NextThrow]_vars

\* A component with one reducer hook, updated from event handlers, that may
\* also dispatch to the hook in MaxSelfUpdates invocations of a pass.
InitPhase ==
  InitWith([hooks |-> <<"reducer">>, counts |-> {1},
            selfUpdates |-> MaxSelfUpdates, reducers |-> {"R1"},
            lanes |-> {{1}, {1, 2}}, deps |-> {NullDeps}, flags |-> {{}},
            budget |-> MaxPhaseRenders, shadow |-> FALSE, env |-> NoBinding,
            burst |-> 1])

NextPhase ==
  \/ RenderBegin
  \/ ComponentCall
  \/ RenderAgain
  \/ RenderEnd
  \/ Commit
  \/ Dispatch

SpecPhase == InitPhase /\ [][NextPhase]_vars

\* A component with a reducer hook and an effect hook whose primitives may
\* also be called outside a render.
InitOutside ==
  InitWith([hooks |-> <<"reducer", "effect">>, counts |-> {2},
            selfUpdates |-> 0, reducers |-> {"R1"}, lanes |-> {{1}},
            deps |-> {Deps(<<"a">>), Deps(<<"b">>)}, flags |-> {{}},
            budget |-> MaxOutsideRenders,
            shadow |-> FALSE, env |-> NoBinding,
            burst |-> 1])

NextOutside ==
  \/ RenderBegin
  \/ ComponentCall
  \/ RenderEnd
  \/ Commit
  \/ CallOutsideRender

SpecOutside == InitOutside /\ [][NextOutside]_vars

\* A component whose one primitive is useMutableSource.  Its renders pass
\* the same source and getSnapshot and one of two subscribe functions; the
\* store is mutated at any time.  The environment either binds no global
\* named subscribe or binds one.
InitMutable ==
  \E env \in {NoBinding, "globalSubscribe"} :
    InitWith([hooks |-> <<"mutableSource">>, counts |-> {1}, selfUpdates |-> 0,
              reducers |-> {"R1"}, lanes |-> {{1}},
              deps |-> {Deps(<<"source", "getSnapshot", "subscribe1">>),
                        Deps(<<"source", "getSnapshot", "subscribe2">>)},
              flags |-> {{}}, budget |-> MaxMutableRenders, shadow |-> FALSE,
              env |-> env, burst |-> 1])

NextMutable ==
  \/ RenderBegin
  \/ ComponentCall
  \/ RenderEnd
  \/ ResetHooksAfterThrow
  \/ Commit
  \/ SourceMutate

SpecMutable == InitMutable /\ [][NextMutable]_vars

\* A component that reads a mutable source, in an environment that binds the
\* global the body of useMutableSource names; the store calls the change
\* handler, whose snapshot function may throw.
InitChange ==
  InitWith([hooks |-> <<"mutableSource">>, counts |-> {1}, selfUpdates |-> 0,
            reducers |-> {"R1"}, lanes |-> {{1}, {1, 2}},
            deps |-> {Deps(<<"source", "getSnapshot", "subscribe1">>)},
            flags |-> {{}}, budget |-> MaxChangeRenders, shadow |-> FALSE,
            env |-> "globalSubscribe", burst |-> 1])

NextChange ==
  \/ RenderBegin
  \/ ComponentCall
  \/ RenderEnd
  \/ ResetHooksAfterThrow
  \/ Commit
  \/ HandleChange

SpecChange == InitChange /\ [][NextChange]_vars

\* A component with one reducer hook whose reducer throws on action 0; event
\* handlers dispatch to it between renders.
InitEager ==
  InitWith([hooks |-> <<"reducer">>, counts |-> {1}, selfUpdates |-> 0,
            reducers |-> {"R3"}, lanes |-> {{1}, {1, 2}}, deps |-> {NullDeps},
            flags |-> {{}}, budget |-> MaxEagerRenders, shadow |-> FALSE,
            env |-> NoBinding,
            burst |-> 1])

NextEager ==
  \/ RenderBegin
  \/ ComponentCall
  \/ RenderEnd
  \/ ResetHooksAfterThrow
  \/ Commit
  \/ Dispatch

SpecEager == InitEager /\ [][NextEager]_vars

\* A component with one reducer hook that may dispatch twice to it while it
\* renders, in the first passes of a render, with updates dispatched from
\* outside in lanes a render may leave out.
InitRerender ==
  InitWith([hooks |-> <<"reducer">>, counts |-> {1},
            selfUpdates |-> MaxSelfUpdates, reducers |-> {"R2"},
            lanes |-> {{1}, {1, 2}}, deps |-> {NullDeps}, flags |-> {{}},
            budget |-> MaxRerenderRenders, shadow |-> FALSE,
            env |-> NoBinding, burst |-> 2])

NextRerender ==
  \/ RenderBegin
  \/ ComponentCall
  \/ RenderAgain
  \/ RenderEnd
  \/ Commit
  \/ Dispatch

SpecRerender == InitRerender /\ [][NextRerender]_vars

\* A component with two reducer hooks that calls one or both, may dispatch
\* before and after its hook calls while rendering, and may throw; event
\* handlers dispatch between renders.
InitAbort ==
  InitWith([hooks |-> <<"reducer", "reducer">>, counts |-> {1, 2},
            selfUpdates |-> 1, reducers |-> {"R2"}, lanes |-> {{1}},
            deps |-> {NullDeps}, flags |-> {{}}, budget |-> MaxAbortRenders,
            shadow |-> FALSE, env |-> NoBinding, burst |-> 1])

NextAbort ==
  \/ RenderBegin
  \/ ComponentCallFree
  \/ RenderAgain
  \/ RenderEnd
  \/ ResetHooksAfterThrow
  \/ Commit
  \/ DispatchFew

SpecAbort == InitAbort /\ [][NextAbort]_vars

\* Render passes whose components read one mutable source.
\* A component with an effect hook, a reducer hook and a layout effect hook
\* that may dispatch to itself while it renders.
InitEffects ==
  InitWith([hooks |-> <<"effect", "reducer", "layoutEffect">>, counts |-> {3},
            selfUpdates |-> 1, reducers |-> {"R2"}, lanes |-> {{1}},
            deps |-> {NullDeps, Deps(<<"a">>)}, flags |-> {{}},
            budget |-> MaxEffectRenders, shadow |-> FALSE, env |-> NoBinding,
            burst |-> 1])

NextEffects ==
  \/ RenderBegin
  \/ ComponentCall
  \/ RenderAgain
  \/ RenderEnd
  \/ Commit

SpecEffects == InitEffects /\ [][NextEffects]_vars

\* A component with one reducer hook that may pass either of two reducers,
\* updated from event handlers; its render attempts may be committed,
\* discarded or bailed out of.
InitTake ==
  InitWith([hooks |-> <<"reducer">>, counts |-> {1}, selfUpdates |-> 0,
            reducers |-> {"R1", "R2"}, lanes |-> RenderLaneSets,
            deps |-> {NullDeps}, flags |-> {{}}, budget |-> MaxTakeRenders,
            shadow |-> FALSE, env |-> NoBinding, burst |-> 1])

NextTake ==
  \/ RenderBegin
  \/ ComponentCall
  \/ RenderEnd
  \/ BailoutHooks
  \/ Commit
  \/ Discard
  \/ Dispatch

SpecTake == InitTake /\ [][NextTake]_vars

\* The primitives of the dispatcher tables; useOpaqueIdentifier twice, for a
\* mount that is not hydrating and one that is.
CellPrimitives ==
  Primitives \cup {"state", "ref", "imperativeHandle", "debugValue",
                   "deferredValue", "transition", "opaqueIdentifier",
                   "opaqueIdentifierHydrating"}

\* A component that calls useReducer and then up to MaxCellCalls primitives,
\* the same ones in the same order on every render, and may dispatch to its
\* reducer while rendering.
InitCells ==
  \E ks \in UNION {[1..n -> CellPrimitives] : n \in 1..MaxCellCalls} :
    InitWith([hooks |-> <<"reducer">> \o ks, counts |-> {Len(ks) + 1},
              selfUpdates |-> 1, reducers |-> {"R2"}, lanes |-> {{1}},
              deps |-> {Deps(<<"source", "getSnapshot", "subscribe1">>)},
              flags |-> {{}}, budget |-> MaxCellRenders, shadow |-> FALSE,
              env |-> "globalSubscribe", burst |-> 1])

NextCells ==
  \/ RenderBegin
  \/ ComponentCall
  \/ RenderAgain
  \/ RenderEnd
  \/ Commit

SpecCells == InitCells /\ [][NextCells]_vars

\* One call of lazyInitializer on the payload.
LazyInitializerInstall(b) ==
  /\ payload' = b.payload
  /\ lazyTrace' =
       [lazyTrace EXCEPT
          !.calls = @ + 1,
          !.ctorCalls = IF b.ctor THEN @ + 1 ELSE @,
          !.ctorThrows = IF b.threw THEN @ + 1 ELSE @,
          !.registered = @ \/ (b.ctor /\ ~b.threw),
          !.last = lazyInitializerOutcome(b),
          !.at = b.payload,
          !.history = HistoryAfter(@, payload, b.payload)]

LazyInitializerWith(throwing) ==
  /\ lazyTrace.calls < MaxLazyCalls
  /\ \E ctorThrows \in throwing :
     \E settle \in Settlements :
       LazyInitializerInstall(lazyInitializerBody(payload, ctorThrows, settle))
  /\ UNCHANGED <<heap, queues, effects, fqs, fibers, current, renderLanes,
                 currentlyRenderingFiber, currentHook, workInProgressHook,
                 didScheduleRenderPhaseUpdate,
                 didScheduleRenderPhaseUpdateDuringThisPass,
                 ReactCurrentDispatcher, numberOfReRenders, children, err, pc,
                 component, trace, shadow, source, root, sourceTrace>>

\* The constructor returns a thenable, or throws.
LazyInitializer == LazyInitializerWith(BOOLEAN)

\* The thenable calls one of the callbacks it was given, at any time after
\* `then` and any number of times.
ThenableSettles ==
  /\ lazyTrace.registered
  /\ lazyTrace.settles < MaxSettles
  /\ \E settle \in Settlements \ {NoSettlement} :
       /\ payload' = Settle(payload, settle)
       /\ lazyTrace' =
            [lazyTrace EXCEPT
               !.settles = @ + 1,
               !.history = HistoryAfter(@, payload, Settle(payload, settle))]
  /\ UNCHANGED <<heap, queues, effects, fqs, fibers, current, renderLanes,
                 currentlyRenderingFiber, currentHook, workInProgressHook,
                 didScheduleRenderPhaseUpdate,
                 didScheduleRenderPhaseUpdateDuringThisPass,
                 ReactCurrentDispatcher, numberOfReRenders, children, err, pc,
                 component, trace, shadow, source, root, sourceTrace>>

\* A lazy component: lazyInitializer is called on its payload and the
\* thenable its constructor returned settles.
InitLazy ==
  InitWith([hooks |-> <<>>, counts |-> {0}, selfUpdates |-> 0,
            reducers |-> {}, lanes |-> {{1}}, deps |-> {NullDeps},
            flags |-> {{}}, budget |-> 0, shadow |-> FALSE,
            env |-> NoBinding, burst |-> 1])

NextLazy ==
  \/ LazyInitializer
  \/ ThenableSettles

SpecLazy == InitLazy /\ [][NextLazy]_vars

\* areHookInputsEqual applied to a new and a stored dependency list.
InitInputs ==
  \E nextDeps \in InputLists :
  \E prevDeps \in InputLists \cup {NullDeps} :
    InitWith([hooks |-> <<>>, counts |-> {0}, selfUpdates |-> 0,
              reducers |-> {}, lanes |-> {{1}}, deps |-> {nextDeps, prevDeps},
              flags |-> {{}}, budget |-> 0, shadow |-> FALSE,
              env |-> NoBinding, burst |-> 1,
              nextDeps |-> nextDeps, prevDeps |-> prevDeps])

CompareInputs ==
  /\ pc = "idle"
  /\ pc' = "compared"
  /\ children' = [invocation |-> 0,
                  values |-> <<areHookInputsEqual(component.nextDeps,
                                                  component.prevDeps)>>]
  /\ UNCHANGED <<heap, queues, effects, fqs, fibers, current, renderLanes,
                 currentlyRenderingFiber, currentHook, workInProgressHook,
                 didScheduleRenderPhaseUpdate,
                 didScheduleRenderPhaseUpdateDuringThisPass,
                 ReactCurrentDispatcher, numberOfReRenders, err, component,
                 trace, shadow, source, root, sourceTrace, payload,
                 lazyTrace>>

NextInputs == CompareInputs

SpecInputs == InitInputs /\ [][NextInputs]_vars

InitSource == Init

NextSource ==
  \/ SourcePassBegin
  \/ SourceRead
  \/ SourceMutate
  \/ SourcePassEnd
  \/ ResetHooksAfterThrow

SpecSource == InitSource /\ [][NextSource]_vars

\* ------------------------------------------------------------- properties
\* C1: when every update of a queue was dispatched with the same lane and every
\* render attempt included the lanes of the updates dispatched before it, the
\* hook's memoizedState after the last attempt is the left fold of the reducer
\* over the actions in dispatch order, starting from the initial state,
\* however many attempts ran and wherever they fell between the dispatches.
C1_SameLaneLeftFold ==
  (UpdateAttemptDone /\ Cardinality(LogLanes) <= 1 /\ trace.covered)
    => WipReducerHook.memoizedState = Fold("R1", InitialState, LogActions)

\* Two effective updates of one lane with a render attempt between them.
C1_Witness ==
  /\ UpdateAttemptDone
  /\ Cardinality(LogLanes) = 1
  /\ trace.covered
  /\ Len(trace.log) >= 2
  /\ trace.log[1].action # 0
  /\ trace.log[2].action # 0
  /\ trace.prev.logLen = 1
  /\ trace.last.logLen >= 2

\* C2: once a committed attempt has skipped an update and applied a later one,
\* an attempt whose lanes include the lane of every update left in the queue
\* (the skipped ones and those dispatched since) ends with memoizedState equal
\* to the left fold over all the dispatched actions in dispatch order: the
\* rebased base state and base queue replay the updates after the skipped one.
C2_RebaseReplays ==
  (UpdateAttemptDone /\ trace.rebased /\ WalkSkipped(trace.walk) = <<>>)
    => WipReducerHook.memoizedState = Fold("R1", InitialState, LogActions)

\* The attempt after the rebase replays an already applied update (NoLane)
\* behind a formerly skipped one.
C2_Witness ==
  /\ UpdateAttemptDone
  /\ trace.rebased
  /\ trace.prev.committed
  /\ SkippedThenApplied(trace.prev.walk)
  /\ WalkSkipped(trace.walk) = <<>>
  /\ \E i, j \in 1..Len(trace.walk.updates) :
       /\ i < j
       /\ trace.walk.updates[i].lane # NoLane
       /\ trace.walk.updates[i].action # 0
       /\ trace.walk.updates[j].lane = NoLane
       /\ trace.walk.updates[j].action # 0

C5_LoopSucceeds ==
  /\ pc = "rendered"
       => /\ err = "none"
          /\ numberOfReRenders = trace.passScheduled
          /\ trace.passInvocations = trace.passScheduled + 1
          /\ children = [invocation |-> trace.invocations,
                         values |-> trace.out]
          /\ children.values[1]
               = Fold("R2", CommittedState,
                      [i \in 1..trace.passScheduled |->
                         0 - (trace.invocations - trace.passInvocations + i)])
  /\ err # "none" => trace.passScheduled > 24

\* renderWithHooks has returned after 24 re-renders.
C5_Witness ==
  /\ pc = "rendered"
  /\ err = "none"
  /\ trace.passScheduled = 24
  /\ numberOfReRenders = 24
  /\ trace.passInvocations = 25

\* C6 as claimed: the error is raised when the 25th re-render would begin, the
\* component having been invoked for 24 re-renders only.
C6_FailsAtReRender25 ==
  err = "TooManyReRenders"
    => numberOfReRenders = 24 /\ trace.passInvocations = 25

\* C6: a component that dispatches to itself in every invocation makes
\* renderWithHooks fail with the 'Too many re-renders' error when the 26th
\* re-render would begin: numberOfReRenders is RE_RENDER_LIMIT, the component
\* was invoked 26 times in the pass (25 re-renders), each of them dispatched,
\* and no invocation follows 25 re-renders that dispatched.
C6_FailsAfterReRender25 ==
  /\ err = "TooManyReRenders"
       => /\ pc \in {"threw", "idle"}
          /\ numberOfReRenders = RE_RENDER_LIMIT
          /\ trace.passInvocations = RE_RENDER_LIMIT + 1
          /\ trace.passScheduled = RE_RENDER_LIMIT + 1
  /\ numberOfReRenders <= RE_RENDER_LIMIT
  /\ trace.passInvocations <= RE_RENDER_LIMIT + 1
  /\ (trace.passScheduled = RE_RENDER_LIMIT + 1 /\ pc # "returned")
       => err = "TooManyReRenders"

\* The error has been raised.
C6_Witness ==
  /\ pc = "threw"
  /\ err = "TooManyReRenders"
  /\ trace.passInvocations = 26

\* C9: after an update render of a memo, callback or effect hook, if the new
\* dependency list has the length of the stored one and the same elements the
\* creator was not run (updateMemo and updateCallback hand back what is
\* stored, updateEffectImpl pushes the effect without HasEffect); if an
\* element differs from the stored one at its index the creator was run (a
\* new value, the new callback stored, the effect pushed with HasEffect).
C9_DepsDecideCreator ==
  (pc = "rendered" /\ current # "none")
    => /\ SameInputs(DepsNext, DepsPrev) => CreatorSkipped
       /\ SomeInputDiffers(DepsNext, DepsPrev) => CreatorRun

\* An effect hook rendered again with the two dependencies it was mounted
\* with.
C9_Witness ==
  /\ pc = "rendered"
  /\ current # "none"
  /\ DepsKind = "effect"
  /\ Len(DepsNext.list) = 2
  /\ SameInputs(DepsNext, DepsPrev)
  /\ CreatorSkipped

\* C10 as claimed: bailoutHooks gives the work-in-progress fiber the current
\* fiber's effect queue, clears Passive and Update on it, and changes nothing
\* else of either fiber, as if the render had not happened.
C10_BailoutChangesNothingElse ==
  [][BailoutStep
       => /\ fibers' = [fibers EXCEPT
                          ![Wip].updateQueue = fibers[current].updateQueue,
                          ![Wip].flags = @ \ (PassiveEffect \cup UpdateEffect)]
          /\ BailoutKeepsObjects]_vars

\* C10: bailoutHooks gives the work-in-progress fiber the current fiber's
\* effect queue, clears Passive and Update on it and keeps its other flags,
\* removes the render lanes from the lanes of the current fiber, and changes
\* nothing else: no hook of either fiber, no update queue, no effect.
C10_BailoutFrame ==
  [][BailoutStep
       => /\ fibers' = [fibers EXCEPT
                          ![Wip].updateQueue = fibers[current].updateQueue,
                          ![Wip].flags = @ \ (PassiveEffect \cup UpdateEffect),
                          ![current].lanes = removeLanes(@, trace.lanes)]
          /\ BailoutKeepsObjects]_vars

\* A bailed-out render whose effect hook had set Passive and Update beside
\* another flag, on a fiber that had work pending in the render lanes.
C10_Witness ==
  /\ trace.bailedOut
  /\ trace.beforeBailout.flags = {"Ref", "Passive", "Update"}
  /\ fibers[Wip].flags = {"Ref"}
  /\ trace.beforeBailout.lanes \cap trace.lanes # {}
  /\ fibers[current].lanes # trace.beforeBailout.lanes
  /\ fibers[current].updateQueue # 0
  /\ fibers[Wip].updateQueue = fibers[current].updateQueue
  /\ fibers[Wip].memoizedState[1].queue # 0

\* C7: the reads of one pass that returned a snapshot all found the source
\* at the same version and returned the same snapshot, and each of them found
\* it at the work-in-progress version recorded by the first.
C7_ReadsAgree ==
  \A i, j \in 1..Len(sourceTrace.reads) :
    (~sourceTrace.reads[i].threw /\ ~sourceTrace.reads[j].threw)
      => /\ sourceTrace.reads[i].version = sourceTrace.reads[j].version
         /\ sourceTrace.reads[i].snapshot = sourceTrace.reads[j].snapshot
         /\ <<sourceTrace.reads[j].version>> = sourceTrace.reads[1].recorded
         /\ sourceTrace.reads[j].recorded = sourceTrace.reads[1].recorded

\* Two reads of a mutated source succeeded in one pass.
C7_Witness ==
  /\ Len(sourceTrace.reads) >= 2
  /\ ~sourceTrace.reads[1].threw
  /\ ~sourceTrace.reads[2].threw
  /\ sourceTrace.reads[2].version > 0
  /\ sourceTrace.reads[2].snapshot = "y"

\* C8: a read that finds the source at a version other than the one an
\* earlier read of the pass succeeded at returns no snapshot: the source is
\* marked dirty and the tearing error is thrown.
C8_MutationTears ==
  \A i, j \in 1..Len(sourceTrace.reads) :
    (i < j /\ ~sourceTrace.reads[i].threw
       /\ sourceTrace.reads[j].version # sourceTrace.reads[i].version)
      => /\ sourceTrace.reads[j].threw
         /\ sourceTrace.reads[j].snapshot = NoSnapshot
         /\ sourceTrace.reads[j].dirty
         /\ err = "Tearing"
         /\ pc \in {"threw", "idle"}

\* A mutation fell between a successful read and a second read.
C8_Witness ==
  /\ Len(sourceTrace.reads) = 2
  /\ ~sourceTrace.reads[1].threw
  /\ sourceTrace.reads[2].version # sourceTrace.reads[1].version
  /\ sourceTrace.reads[2].threw
  /\ source.dirty
  /\ pc = "threw"

\* C11: whenever no render is in progress (renderWithHooks has returned, with
\* or without re-renders, or resetHooksAfterThrow has run after a throw of the
\* component or of the re-render limit) the active dispatcher is ContextOnly;
\* the Mount, Update or Rerender table is active only between the entry of
\* renderWithHooks and its return or the reset after its throw.
C11_ContextOnlyOnExit ==
  /\ pc \in {"idle", "rendered"} => ReactCurrentDispatcher = "ContextOnly"
  /\ ReactCurrentDispatcher \in {"Mount", "Update", "Rerender"}
       => /\ pc \in {"component", "returned", "threw"}
          /\ currentlyRenderingFiber # "none"

\* The reset has run after the component threw in a re-render.
C11_Witness ==
  /\ pc = "idle"
  /\ err = "MoreHooks"
  /\ trace.later = {"Rerender"}
  /\ ReactCurrentDispatcher = "ContextOnly"

\* C12 as claimed: every operation of the ContextOnly table, called while that
\* table is active, raises the invalid-hook-call error and changes no hook
\* list, queue or effect list.
C12_EveryOperationThrows ==
  [][OutsideCallStep
       => /\ err' = "InvalidHookCall"
          /\ OutsideCallKeepsObjects]_vars

\* C12: every hook primitive of the ContextOnly table (the use* members),
\* called while that table is active, raises the invalid-hook-call error;
\* readContext, the context read the table shares with the other tables,
\* returns the context value and raises nothing; no operation of the table
\* changes a hook list, a queue or an effect list.
C12_EveryHookThrows ==
  [][OutsideCallStep
       => /\ ReactCurrentDispatcher = "ContextOnly"
          /\ trace.outsideKind' # "readContext" => err' = "InvalidHookCall"
          /\ trace.outsideKind' = "readContext"
               => err' = "none" /\ trace.out' = Append(trace.out, "context")
          /\ OutsideCallKeepsObjects]_vars

\* useReducer was called outside a render of the mounted component.
C12_Witness ==
  /\ trace.outside = 1
  /\ trace.outsideKind = "reducer"
  /\ err = "InvalidHookCall"
  /\ current # "none"
  /\ pc = "idle"
  /\ ReactCurrentDispatcher = "ContextOnly"

\* C13: an invocation under the Update or Rerender table that calls more
\* hooks than the list it reads from holds (the committed list, or the
\* work-in-progress list of the previous pass when a mount is re-rendered)
\* fails with 'Rendered more hooks than during the previous render' at the
\* first extra call: the cursor stands on the last existing hook and the
\* work-in-progress list has no hook beyond those of the list read; an
\* invocation that calls no more hooks than that list holds does not fail.
C13_MoreHooksFails ==
  (/\ pc \in {"returned", "threw"}
   /\ err # "TooManyReRenders"
   /\ ReactCurrentDispatcher \in {"Update", "Rerender"})
    => /\ trace.calls > trace.base
            => /\ pc = "threw"
               /\ err = "MoreHooks"
               /\ workInProgressHook = trace.base
               /\ Len(fibers[currentlyRenderingFiber].memoizedState)
                    = trace.base
       /\ trace.calls <= trace.base => pc = "returned" /\ err = "none"

\* An update render called two hooks where the committed list holds one.
C13_Witness ==
  /\ pc = "threw"
  /\ err = "MoreHooks"
  /\ ReactCurrentDispatcher = "Update"
  /\ trace.calls = 2
  /\ trace.base = 1
  /\ Len(fibers[current].memoizedState) = 1
  /\ Len(fibers[currentlyRenderingFiber].memoizedState) = 1

\* C14 as claimed: renderWithHooks does not return normally from a render of
\* a mounted component that left committed hooks unconsumed.
C14_FewerHooksFails ==
  pc = "rendered" => ~trace.tooFew

\* renderWithHooks has returned the children of an update render that called
\* one hook where the committed list holds two.
C14_Witness ==
  /\ pc = "rendered"
  /\ err = "none"
  /\ trace.tooFew
  /\ trace.calls = 1
  /\ Len(fibers[current].memoizedState) = 2
  /\ Len(fibers[Wip].memoizedState) = 1
  /\ children.invocation = trace.invocations

\* C15 as claimed: a render attempt leaves every field of every committed hook
\* and of the update queues those hooks reference as it found them.
C15_CommittedUntouched ==
  [][AttemptStep
       => /\ CommittedHooksAfter = CommittedHooks
          /\ queues' = queues]_vars

\* C15: a render attempt writes no memoizedState, baseState or queue of a
\* committed hook and loses none of its updates, but it does write committed
\* objects: updateReducer moves the pending updates of the queue behind the
\* committed hook's base queue (the committed hook's baseQueue becomes the
\* last pending update, queue.pending becomes null) and stores the reducer
\* and the state it rendered on the queue; the updates the committed hook
\* reaches through baseQueue afterwards are those of its base queue followed
\* by the pending ones, unchanged and in order.
C15_CommittedKeepsContent ==
  [][AttemptStep
       => /\ Len(CommittedHooksAfter) = Len(CommittedHooks)
          /\ \A i \in 1..Len(CommittedHooks) :
               /\ CommittedHooksAfter[i].memoizedState
                    = CommittedHooks[i].memoizedState
               /\ CommittedHooksAfter[i].baseState = CommittedHooks[i].baseState
               /\ CommittedHooksAfter[i].queue = CommittedHooks[i].queue
               /\ CommittedHooksAfter[i].baseQueue
                    = IF queues[CommittedHooks[i].queue].pending # 0
                      THEN queues[CommittedHooks[i].queue].pending
                      ELSE CommittedHooks[i].baseQueue
               /\ queues'[CommittedHooks[i].queue].pending = 0
               /\ queues'[CommittedHooks[i].queue].fiber
                    = queues[CommittedHooks[i].queue].fiber
               /\ FieldsOf(UpdatesOf(heap', CommittedHooksAfter[i].baseQueue))
                    = FieldsOf(UpdatesOf(heap, CommittedHooks[i].baseQueue))
                        \o FieldsOf(UpdatesOf(
                                      heap,
                                      queues[CommittedHooks[i].queue].pending))]_vars

\* An attempt has merged a pending update behind the base queue a committed
\* attempt left when it skipped an update.
C15_Witness ==
  /\ pc = "returned"
  /\ current # "none"
  /\ trace.last.committed
  /\ Len(trace.last.walk.updates) = 1
  /\ WalkSkipped(trace.last.walk) # <<>>
  /\ Len(trace.log) = 2
  /\ Len(trace.walk.updates) = 2
  /\ queues[CommittedHooks[1].queue].pending = 0
  /\ Len(UpdatesOf(heap, CommittedHooks[1].baseQueue)) = 2

\* C16: a dispatch made by the component function while its fiber (the one
\* the queue was created for, or the alternate of that fiber) is rendering
\* appends the update to the queue and raises both render-phase-update
\* flags; scheduleUpdateOnFiber is not called and the update carries no
\* eager reducer or state.  An invocation that does not dispatch leaves the
\* flag of the pass down, and a dispatch made while the fiber is not
\* rendering raises neither flag.
C16_RenderPhaseDispatch ==
  [][/\ (ComponentStep /\ trace.selfUpdate')
          => /\ currentlyRenderingFiber
                  \in {queues'[1].fiber, fibers[queues'[1].fiber].alternate}
             /\ didScheduleRenderPhaseUpdateDuringThisPass'
             /\ didScheduleRenderPhaseUpdate'
             /\ trace.scheduled' = trace.scheduled
             /\ trace.eagerBailouts' = trace.eagerBailouts
             /\ queues'[1].pending = Len(heap')
             /\ DispatchedUpdate.action = 0 - trace.invocations'
             /\ DispatchedUpdate.eagerReducer = NoReducer
             /\ DispatchedUpdate.eagerState = NullState
     /\ (ComponentStep /\ ~trace.selfUpdate')
          => /\ ~didScheduleRenderPhaseUpdateDuringThisPass'
             /\ didScheduleRenderPhaseUpdate' = didScheduleRenderPhaseUpdate
     /\ EventDispatchStep
          => /\ currentlyRenderingFiber = "none"
             /\ queues'[1].pending = Len(heap')
             /\ DispatchedUpdate.action = trace.log'[Len(trace.log')].action
             /\ didScheduleRenderPhaseUpdateDuringThisPass'
                  = didScheduleRenderPhaseUpdateDuringThisPass
             /\ didScheduleRenderPhaseUpdate' = didScheduleRenderPhaseUpdate
             /\ ~didScheduleRenderPhaseUpdate']_vars

\* The component has dispatched in an update render: the rendering fiber is
\* the alternate of the fiber the dispatch function is bound to, and an
\* event handler had dispatched before.
C16_Witness ==
  /\ pc = "returned"
  /\ trace.selfUpdate
  /\ currentlyRenderingFiber = "B"
  /\ queues[1].fiber = "A"
  /\ fibers["A"].alternate = "B"
  /\ didScheduleRenderPhaseUpdateDuringThisPass
  /\ didScheduleRenderPhaseUpdate
  /\ Len(trace.log) >= 1
  /\ trace.scheduled >= 1
  /\ heap[queues[1].pending].eagerReducer = NoReducer

\* C17: a dispatch outside the render phase, made when neither the fiber nor
\* its alternate has pending lanes, stores on the update the reducer last
\* rendered and the state that reducer gives for the action from the state
\* last rendered; if that state is identical to the state last rendered the
\* dispatch ends without a scheduling request, otherwise it makes exactly
\* one, with the update's lane.  A dispatch made when lanes are pending
\* stores no eager state and makes exactly one scheduling request.
C17_EagerPath ==
  [][EventDispatchStep
       => /\ DispatchedUpdate.lane = Dispatched.lane
          /\ DispatchedUpdate.action = Dispatched.action
          /\ NoPendingLanes
               => /\ DispatchedUpdate.eagerReducer
                       = queues[1].lastRenderedReducer
                  /\ DispatchedUpdate.eagerState
                       = Reduce(queues[1].lastRenderedReducer,
                                queues[1].lastRenderedState, Dispatched.action)
                  /\ DispatchedUpdate.eagerState = queues[1].lastRenderedState
                       => /\ trace.scheduled' = trace.scheduled
                          /\ fibers' = fibers
                  /\ DispatchedUpdate.eagerState # queues[1].lastRenderedState
                       => ScheduledOnce
          /\ ~NoPendingLanes
               => /\ DispatchedUpdate.eagerReducer = NoReducer
                  /\ DispatchedUpdate.eagerState = NullState
                  /\ ScheduledOnce]_vars

\* After a committed update, a dispatch whose action the reducer ignores has
\* ended without a scheduling request.
C17_Witness ==
  /\ Len(trace.log) = 2
  /\ trace.log[1].action # 0
  /\ trace.log[2].action = 0
  /\ trace.scheduled = 1
  /\ trace.eagerBailouts = 1
  /\ queues[1].lastRenderedState = <<0, 1>>
  /\ heap[queues[1].pending].eagerState = <<0, 1>>
  /\ heap[queues[1].pending].eagerReducer = "R1"
  /\ fibers[current].lanes = NoLanes

\* C18: in one call of renderWithHooks the first invocation of the component
\* runs under the Mount table exactly when there is no current fiber or the
\* current fiber has no committed hook, and under the Update table
\* otherwise; every further invocation runs under the Rerender table, and
\* it runs only after an invocation that flagged a render-phase update.
C18_PhaseMachine ==
  /\ (trace.passInvocations >= 1 /\ pc # "idle")
       => /\ trace.first
               = IF current = "none" \/ fibers[current].memoizedState = <<>>
                 THEN "Mount" ELSE "Update"
          /\ trace.later
               = IF trace.passInvocations >= 2 THEN {"Rerender"} ELSE {}
          /\ trace.passScheduled \in
               {trace.passInvocations - 1, trace.passInvocations}
  /\ (pc = "component" /\ trace.passInvocations >= 1)
       => /\ ReactCurrentDispatcher = "Rerender"
          /\ trace.passScheduled = trace.passInvocations
  /\ (pc = "component" /\ trace.passInvocations = 0)
       => ReactCurrentDispatcher \in {"Mount", "Update"}

\* A component committed without hooks is rendered again: its first
\* invocation ran under the Mount table and dispatched, its second under the
\* Rerender table.
C18_Witness ==
  /\ pc = "returned"
  /\ current # "none"
  /\ fibers[current].memoizedState = <<>>
  /\ trace.first = "Mount"
  /\ trace.later = {"Rerender"}
  /\ trace.passInvocations = 2
  /\ trace.passScheduled >= 1

\* C19: a read made when no work-in-progress version is recorded for the
\* source returns a snapshot exactly when the lanes being rendered include
\* every lane of root.mutableReadLanes; it then records the version the
\* source has as the work-in-progress version and returns the value the
\* source has; otherwise it throws and records no version.
C19_FirstReadSafety ==
  [][(SourceReadStep /\ getWorkInProgressVersion(source) = NullVersion)
       => /\ ~SourceReadMade.threw <=> root.mutableReadLanes \subseteq renderLanes
          /\ ~SourceReadMade.threw
               => /\ getWorkInProgressVersion(source') = <<source.version>>
                  /\ SourceReadMade.snapshot = source.value
          /\ SourceReadMade.threw
               => /\ getWorkInProgressVersion(source') = NullVersion
                  /\ SourceReadMade.snapshot = NoSnapshot]_vars

\* The first read of a pass succeeded on a mutated source with unflushed
\* mutation lanes, all of them among the lanes of the pass.
C19_Witness ==
  /\ Len(sourceTrace.reads) = 1
  /\ ~sourceTrace.reads[1].threw
  /\ root.mutableReadLanes # NoLanes
  /\ root.mutableReadLanes \subseteq renderLanes
  /\ root.mutableReadLanes # renderLanes
  /\ source.version = 1
  /\ sourceTrace.reads[1].version = 1
  /\ getWorkInProgressVersion(source) = <<1>>

\* C20: in useMutableSource, when the source, getSnapshot or subscribe passed
\* by a render of the mounted component differs in identity from the one the
\* previous render stored, the work-in-progress state hook gets a queue that
\* did not exist before, with nothing pending; its base queue is cleared; and
\* its memoizedState and baseState are the snapshot read from the source by
\* this render (unless that read throws the tearing error).
C20_ChangedInputsResetQueue ==
  [][(ComponentStep /\ ReactCurrentDispatcher = "Update"
        /\ SourceInputsChanged)
       => /\ err' \in {"none", "Tearing"}
          /\ StateHookAfter.queue > Len(queues)
          /\ queues'[StateHookAfter.queue].pending = 0
          /\ StateHookAfter.baseQueue = 0
          /\ err' = "none"
               => /\ StateHookAfter.memoizedState = <<source.value>>
                  /\ StateHookAfter.baseState = <<source.value>>]_vars

\* The mounted component was rendered with a subscribe function that is not
\* the stored one, the render returned, and the work-in-progress state hook
\* still has the queue of the committed state hook.
C20_Witness ==
  /\ pc = "returned"
  /\ current # "none"
  /\ ~is(StoredSource.subscribe, SubscribeOf(trace.ins[1]))
  /\ fibers[currentlyRenderingFiber].memoizedState[2].queue
       = CommittedStateHook.queue

\* C21: when the reducer throws during the eager computation of dispatchAction
\* the error does not leave dispatchAction: the update stays at the end of the
\* queue with no eager reducer and no eager state, and scheduleUpdateOnFiber
\* is called; and a render of the mounted component whose lanes include an
\* update on which the reducer throws ends with that error thrown.
C21_EagerThrowSuppressed ==
  [][/\ (/\ EventDispatchStep
         /\ NoPendingLanes
         /\ Throws(queues[1].lastRenderedReducer, queues[1].lastRenderedState,
                   Dispatched.action))
        => /\ err' = err
           /\ pc' = pc
           /\ queues'[1].pending = Len(heap')
           /\ DispatchedUpdate.action = Dispatched.action
           /\ DispatchedUpdate.eagerReducer = NoReducer
           /\ DispatchedUpdate.eagerState = NullState
           /\ ScheduledOnce
     /\ (/\ ComponentStep
         /\ ReactCurrentDispatcher = "Update"
         /\ \E i \in 1..Len(QueuedUpdates) :
              /\ isSubsetOfLanes(renderLanes, QueuedUpdates[i].lane)
              /\ QueuedUpdates[i].eagerReducer = NoReducer
              /\ Throws(trace.ins'[1].reducer, NullState,
                        QueuedUpdates[i].action))
        => /\ pc' = "threw"
           /\ err' = "ReducerError"]_vars

\* The first dispatch after the mount, made with no lanes pending, passed an
\* action on which the reducer throws; the update was queued without eager
\* state and scheduled, and the render that applied it has thrown the error.
C21_Witness ==
  /\ pc = "threw"
  /\ err = "ReducerError"
  /\ Len(trace.log) = 1
  /\ trace.log[1].action = 0
  /\ trace.scheduled = 1
  /\ heap[1].eagerReducer = NoReducer

\* C23: between folds, queue.pending is the update of the most recent
\* dispatch, pending.next the update of the oldest dispatch not yet folded,
\* and following next from pending.next visits the update of every unfolded
\* dispatch exactly once, in dispatch order, and then returns to pending.next.
C23_PendingIsCircularInOrder ==
  (current # "none" /\ pc \in {"idle", "rendered", "component"})
    => /\ queues[1].pending = 0 <=> UnfoldedDispatches = <<>>
       /\ queues[1].pending # 0
            => /\ Len(PendingIds) = Len(UnfoldedDispatches)
               /\ PendingIds[Len(PendingIds)] = queues[1].pending
               /\ heap[queues[1].pending].next = PendingIds[1]
               /\ \A i, j \in 1..Len(PendingIds) :
                    i # j => PendingIds[i] # PendingIds[j]
               /\ \A i \in 1..Len(PendingIds) :
                    /\ heap[PendingIds[i]].action = UnfoldedDispatches[i].action
                    /\ heap[PendingIds[i]].lane = UnfoldedDispatches[i].lane
                    /\ i < Len(PendingIds)
                         => heap[PendingIds[i]].next = PendingIds[i + 1]

\* Two dispatches with different actions and different lanes were made and
\* none has been folded: the pending list holds both.
C23_Witness ==
  /\ current # "none"
  /\ pc \in {"idle", "rendered"}
  /\ trace.last.logLen = 0
  /\ Len(trace.log) = 2
  /\ trace.log[1].action # trace.log[2].action
  /\ trace.log[1].lane # trace.log[2].lane
  /\ Len(PendingIds) = 2
  /\ queues[1].pending = 2

\* C24: when updateReducer starts with both a stored base queue and a pending
\* list, it splices them into one circular list: walked from its first
\* element it visits the base-queue updates in their stored order and then
\* the pending updates in enqueue order, each once; this list is what the
\* walk processes, and queue.pending is null afterwards.
C24_SpliceKeepsOrder ==
  [][(/\ ComponentStep
      /\ ReactCurrentDispatcher = "Update"
      /\ BaseIds # <<>>
      /\ PendingIds # <<>>)
       => /\ BaseIdsAfter = BaseIds \o PendingIds
          /\ \A i, j \in 1..Len(BaseIdsAfter) :
               i # j => BaseIdsAfter[i] # BaseIdsAfter[j]
          /\ heap'[BaseIdsAfter[Len(BaseIdsAfter)]].next = BaseIdsAfter[1]
          /\ FieldsOf(trace.walk'.updates)
               = FieldsOf(UpdatesOf(heap, fibers[current].memoizedState[1].baseQueue))
                   \o FieldsOf(UpdatesOf(heap, queues[1].pending))
          /\ queues'[1].pending = 0]_vars

\* The committed attempt before this one skipped an update, a dispatch
\* followed, and the walk of this attempt went over the stored clone and then
\* the newly dispatched update.
C24_Witness ==
  /\ pc = "returned"
  /\ current # "none"
  /\ trace.last.committed
  /\ WalkSkipped(trace.last.walk) # <<>>
  /\ Len(trace.log) = trace.last.logLen + 1
  /\ Len(trace.walk.updates) = Len(WalkSkipped(trace.last.walk)) + 1
  /\ trace.walk.updates[Len(trace.walk.updates)].action
       = trace.log[Len(trace.log)].action
  /\ queues[1].pending = 0

\* C25: in one updateReducer walk the new base queue holds, in walk order,
\* a clone of every update from the first skipped one on: a skipped update's
\* clone keeps its lane, an applied update's clone has NoLane, which every
\* set of render lanes includes; the updates applied before the first skip
\* are not in the new base queue.
C25_CloneAfterFirstSkip ==
  WalkDone
    => /\ FieldsOf(UpdatesOf(heap, WalkedHook.baseQueue))
            = ExpectedClones(trace.walk)
       /\ \A lanes \in RenderLaneSets : isSubsetOfLanes(lanes, NoLane)

\* A walk skipped its first update and applied the second, which carried a
\* lane: the new base queue holds the first with its lane and the second with
\* NoLane.
C25_Witness ==
  /\ WalkDone
  /\ Len(trace.walk.updates) = 2
  /\ FirstSkipped(trace.walk) = 1
  /\ isSubsetOfLanes(trace.walk.lanes, trace.walk.updates[2].lane)
  /\ trace.walk.updates[2].lane # NoLane
  /\ Len(ListOf(heap, WalkedHook.baseQueue)) = 2
  /\ heap[WalkedHook.baseQueue].lane = NoLane
  /\ heap[heap[WalkedHook.baseQueue].next].lane = trace.walk.updates[1].lane

\* C26: after updateReducer has folded a non-empty queue, if it skipped no
\* update the hook's baseState is its new memoizedState and its baseQueue is
\* null; if it skipped at least one, baseQueue is the last clone made, the
\* list from its next is exactly the clones made during the walk, in the
\* order they were made, and the last clone's next is the first clone.
C26_BaseQueueAfterFold ==
  [][WalkStep
       => /\ WalkSkipped(trace.walk') = <<>>
               => /\ WalkedHookAfter.baseState = WalkedHookAfter.memoizedState
                  /\ WalkedHookAfter.baseQueue = 0
                  /\ ClonesMade = <<>>
          /\ WalkSkipped(trace.walk') # <<>>
               => /\ ClonesMade # <<>>
                  /\ WalkedHookAfter.baseQueue = Len(heap')
                  /\ heap'[WalkedHookAfter.baseQueue].next = Len(heap) + 1
                  /\ ListOf(heap', WalkedHookAfter.baseQueue) = ClonesMade]_vars

\* A walk over two updates skipped the first: the stored base queue is the
\* circular list of the two clones.  The attempt before it skipped nothing.
C26_Witness ==
  /\ WalkDone
  /\ Len(trace.walk.updates) = 2
  /\ FirstSkipped(trace.walk) = 1
  /\ WalkedHook.baseQueue = Len(heap)
  /\ heap[heap[WalkedHook.baseQueue].next].next = WalkedHook.baseQueue
  /\ WalkedHook.baseState # WalkedHook.memoizedState
  /\ trace.last.walk.hook # 0
  /\ WalkSkipped(trace.last.walk) = <<>>

\* C27: when updateReducer skips at least one update, the baseState it stores
\* is the state accumulated, from the base state the walk started with, over
\* the updates that precede the first skipped update: the state just before
\* that update, whatever the final memoizedState of the attempt is.
C27_BaseStateBeforeFirstSkip ==
  (WalkDone /\ FirstSkipped(trace.walk) # 0)
    => WalkedHook.baseState
         = Fold(trace.walk.reducer, trace.walk.baseState,
                ActionsOf(SubSeq(trace.walk.updates, 1,
                                 FirstSkipped(trace.walk) - 1)))

\* A walk applied an effective update and then skipped one: the stored base
\* state is the walk's starting state with the first action applied.
C27_Witness ==
  /\ WalkDone
  /\ Len(trace.walk.updates) = 2
  /\ FirstSkipped(trace.walk) = 2
  /\ trace.walk.updates[1].action # 0
  /\ WalkedHook.baseState
       = Append(trace.walk.baseState, trace.walk.updates[1].action)
  /\ WalkedHook.baseState # trace.walk.baseState

\* C28 as claimed: after a render attempt the rendering fiber's lanes hold the
\* lane of every update the attempt skipped and markSkippedUpdateLanes was
\* called for each; and whenever a hook of a fiber has a base queue with an
\* update the last attempt skipped, the lanes of that fiber or of its
\* alternate are not NoLanes.
C28_SkippedLanesStayPending ==
  /\ WalkDone
       => /\ SkippedLanesOf(trace.walk) \subseteq fibers[Wip].lanes
          /\ SkippedLanesOf(trace.walk) \subseteq trace.skippedLanes
  /\ \A f \in {"A", "B"} :
       (/\ fibers[f].memoizedState # <<>>
        /\ HoldsSkipped(fibers[f].memoizedState[1].baseQueue, trace.last.walk))
         => \/ fibers[f].lanes # NoLanes
            \/ fibers[Other(f)].lanes # NoLanes

\* C28: when the component function has returned from an attempt, the
\* rendering fiber's lanes are exactly the lanes of the updates updateReducer
\* skipped in the attempt (renderWithHooks reset them to NoLanes first) and
\* markSkippedUpdateLanes was called with each of them; later dispatches only
\* add lanes.  So at the end of an attempt whose hook stores a base queue
\* with an update that carries a lane, the rendering fiber's lanes are not
\* NoLanes, and they stay so on that fiber once the attempt is committed,
\* until the next render begins.
C28_SkippedLanesOnRenderedFiber ==
  /\ (WalkDone /\ pc = "returned")
       => /\ fibers[Wip].lanes = SkippedLanesOf(trace.walk)
          /\ trace.skippedLanes = SkippedLanesOf(trace.walk)
  /\ WalkDone
       => /\ SkippedLanesOf(trace.walk) \subseteq fibers[Wip].lanes
          /\ SkippedLanesOf(trace.walk) \subseteq trace.skippedLanes
          /\ HoldsLane(WalkedHook.baseQueue) => fibers[Wip].lanes # NoLanes
  /\ (/\ pc = "idle"
      /\ current # "none"
      /\ trace.last.committed
      /\ HoldsLane(fibers[current].memoizedState[1].baseQueue))
       => fibers[current].lanes # NoLanes

\* A committed attempt skipped an update and applied a later one: the
\* committed fiber carries the lane of the skipped update and its hook the
\* two clones.
C28_Witness ==
  /\ pc = "idle"
  /\ current # "none"
  /\ trace.last.committed
  /\ Len(WalkSkipped(trace.last.walk)) = 1
  /\ SkippedThenApplied(trace.last.walk)
  /\ fibers[current].lanes = SkippedLanesOf(trace.last.walk)
  /\ fibers[current].lanes # NoLanes
  /\ Len(BaseIds) = 2

\* C29: a pass under the Rerender table applies every update of queue.pending
\* with the reducer passed in, in enqueue order, on top of the memoizedState
\* the work-in-progress hook had after the previous pass; the pending list it
\* found is gone afterwards (what is pending then was enqueued by this pass),
\* and the hook's base queue is the one it had.
C29_RerenderFoldsPending ==
  [][RerenderStep =>
       /\ RenderingHookAfter.memoizedState =
            Fold(trace'.ins[1].reducer, RenderingHook.memoizedState,
                 PendingActions)
       /\ \A i \in 1..Len(PendingIdsAfter) : PendingIdsAfter[i] > Len(heap)
       /\ ~trace'.selfUpdate => queues'[1].pending = 0
       /\ RenderingHookAfter.baseQueue = RenderingHook.baseQueue]_vars

\* A re-render pass has folded two render-phase updates, in the order the
\* previous invocation dispatched them, and left nothing pending.
C29_Witness ==
  /\ pc = "returned"
  /\ ReactCurrentDispatcher = "Rerender"
  /\ ~trace.selfUpdate
  /\ queues[1].pending = 0
  /\ Len(RenderingHook.memoizedState) >= 3
  /\ SubSeq(RenderingHook.memoizedState,
            Len(RenderingHook.memoizedState) - 1,
            Len(RenderingHook.memoizedState)) =
       <<0 - (trace.invocations - 1), trace.invocations - 1>>

\* C30: a pass under the Rerender table writes the new state to baseState
\* exactly when the hook has no base queue: after rerenderReducer, baseState
\* is the new memoizedState then, and is the one the hook had otherwise.
C30_BaseStateOnlyWithoutBaseQueue ==
  [][RerenderStep =>
       /\ RenderingHook.baseQueue = 0 =>
            RenderingHookAfter.baseState = RenderingHookAfter.memoizedState
       /\ RenderingHook.baseQueue # 0 =>
            RenderingHookAfter.baseState = RenderingHook.baseState]_vars

\* A re-render pass has run on a hook with a base queue: the state holds the
\* render-phase actions and baseState does not.
C30_Witness ==
  /\ pc = "returned"
  /\ ReactCurrentDispatcher = "Rerender"
  /\ RenderingHook.baseQueue # 0
  /\ RenderingHook.memoizedState # RenderingHook.baseState
  /\ RenderingHook.memoizedState[Len(RenderingHook.memoizedState)] =
       trace.invocations - 1
  /\ \A i \in 1..Len(RenderingHook.baseState) :
       RenderingHook.baseState[i] >= 0

\* C22: when the snapshot function throws inside the change handler, the
\* error does not leave the handler; the state hook's queue gets one more
\* update, last in its pending list, whose action is an updater that throws
\* that error, with no eagerly computed state; and a render of the mounted
\* component that folds such an update throws the error of the first one it
\* folds.
C22_HandlerErrorRethrownInRender ==
  [][/\ (HandleChangeStep /\ trace'.change.threw) =>
          /\ ~trace'.change.escaped
          /\ trace'.change.queue = SnapshotHook.queue
          /\ ListOf(heap', queues'[SnapshotHook.queue].pending) =
               Append(trace'.change.pending, Len(heap) + 1)
          /\ heap'[Len(heap) + 1].action = Thrower(trace'.change.error)
          /\ heap'[Len(heap) + 1].eagerReducer = NoReducer
     /\ (UpdateRenderStep /\ FoldedUpdaters # <<>>) =>
          /\ pc' = "threw"
          /\ err' = heap[FoldedUpdaters[1]].action[2]]_vars

\* The snapshot function threw in the handler, the handler returned, and the
\* next render of the component threw that error.
C22_Witness ==
  /\ pc = "threw"
  /\ trace.change.calls = 1
  /\ trace.change.threw
  /\ ~trace.change.escaped
  /\ err = trace.change.error
  /\ err \in SnapshotErrors

\* C31: updateWorkInProgressHook moves both cursors one hook further: after
\* its k-th call in an invocation under the Update or Rerender table the
\* work-in-progress cursor is on the k-th work-in-progress hook and the
\* committed cursor on the k-th committed hook (null when there is none); a
\* k-th work-in-progress hook left by an earlier pass is reused as it is,
\* otherwise a copy of the k-th committed hook is appended; the call fails
\* only when neither list has a k-th hook.  When the component returns, the
\* cursors are where its calls have left them.
C31_CursorsInLockstep ==
  /\ (pc = "component" /\ ReactCurrentDispatcher \in {"Update", "Rerender"})
       => \A k \in 1..MaxCursor :
            IF Advance(World, k).err = "none"
            THEN AdvancedTo(Advance(World, k), k)
            ELSE \E j \in 1..k : /\ j > Len(CommittedList)
                                 /\ j > Len(RenderingList)
  /\ (pc = "returned" /\ ReactCurrentDispatcher \in {"Update", "Rerender"})
       => /\ workInProgressHook = trace.calls
          /\ currentHook = IF trace.calls <= Len(CommittedList)
                           THEN trace.calls ELSE 0

\* A re-render pass of the mounted component has called two hooks: both
\* cursors are on the second hook.
C31_Witness ==
  /\ pc = "returned"
  /\ ReactCurrentDispatcher = "Rerender"
  /\ current # "none"
  /\ Len(CommittedList) = 2
  /\ trace.calls = 2
  /\ workInProgressHook = 2
  /\ currentHook = 2

\* C32 as stated: after resetHooksAfterThrow no update the aborted render
\* dispatched while rendering can be found by a later render; every other
\* update that could be found before can still be found; and without a
\* render-phase update no queue changes.
C32_RenderPhaseUpdatesRemoved ==
  [][ResetStep =>
       /\ \A id \in QueuedIds(heap', queues', fibers') :
            heap'[id].action \notin LateActions \cup EarlyActions
       /\ \A id \in QueuedIds(heap, queues, fibers) :
            heap[id].action \notin LateActions \cup EarlyActions
              => id \in QueuedIds(heap', queues', fibers')
       /\ ~didScheduleRenderPhaseUpdate => queues' = queues]_vars

\* C32, for the updates the component dispatches after its hook calls:
\* resetHooksAfterThrow removes them; it removes no update dispatched before
\* the render began, whether or not the aborted render processed its hook;
\* without a render-phase update no queue changes; with one, only the pending
\* lists of the queues in the work-in-progress list are cleared.
C32_LateUpdatesRemoved ==
  [][ResetStep =>
       /\ \A id \in QueuedIds(heap', queues', fibers') :
            heap'[id].action \notin LateActions
       /\ \A id \in QueuedIds(heap, queues, fibers) :
            heap[id].action \notin LateActions \cup EarlyActions
              => id \in QueuedIds(heap', queues', fibers')
       /\ ~didScheduleRenderPhaseUpdate => queues' = queues
       /\ \A q \in DOMAIN queues :
            queues'[q] # queues[q]
              => /\ didScheduleRenderPhaseUpdate
                 /\ queues'[q] = [queues[q] EXCEPT !.pending = 0]
                 /\ \E i \in 1..Len(RenderingList) :
                      RenderingList[i].queue = q]_vars

\* An aborted render of the mounted component left a dispatch of its own
\* pending, next to nothing else; the catch handler has emptied the queue,
\* and an update dispatched before the render to the hook the render did not
\* call is still pending.
C32_Witness ==
  /\ pc = "idle"
  /\ err = "ComponentError"
  /\ current # "none"
  /\ trace.selfUpdate
  /\ trace.calls = 1
  /\ Len(trace.log) = 1
  /\ trace.log[1].queue = 2
  /\ queues[1].pending = 0
  /\ queues[2].pending # 0
  /\ heap[queues[2].pending].action = trace.log[1].action

\* The positions, in call order, of the effect primitives among the first
\* `calls` primitives of the component.
EffectHooksCalled(hooks, calls) ==
  SelectSeq([i \in 1..calls |-> i],
            LAMBDA i : hooks[i] \in {"effect", "layoutEffect"})

\* The invocation that ends with this step is the last of its renderWithHooks
\* call: it returned and scheduled no render-phase update.
FinalInvocationStep ==
  /\ pc = "component"
  /\ pc' = "returned"
  /\ ~didScheduleRenderPhaseUpdateDuringThisPass'

RenderEndStep == pc = "returned" /\ pc' = "rendered"

\* The effect list of fiber f read from the given heaps.
EffectListIn(e, q, fs, f) == EffectList([effects |-> e, fqs |-> q, fibers |-> fs], f)

\* list holds exactly the effects allocated after the first `before` ones,
\* oldest first, is linked in that order and closed into a ring, and
\* lastEffect is its last element.
IsRingOfPushed(e, q, fs, f, before) ==
  LET list == EffectListIn(e, q, fs, f)
      n == Len(e) - before
  IN /\ Len(list) = n
     /\ \A i \in 1..n : list[i] = before + i
     /\ \A i \in 1..(n - 1) : e[list[i]].next = list[i + 1]
     /\ n > 0 => /\ fs[f].updateQueue # 0
                 /\ q[fs[f].updateQueue].lastEffect = list[n]
                 /\ e[list[n]].next = list[1]

\* C33: when renderWithHooks returns, the effect list of the rendered fiber is
\* a ring whose lastEffect is the last effect pushed and whose successor is
\* the first one pushed, and it holds exactly the effects the final
\* invocation of the component pushed, in the order of its effect calls;
\* the effects of earlier invocations of the same call are not in it.
C33_EffectListOfFinalInvocation ==
  [][/\ FinalInvocationStep =>
          LET called == EffectHooksCalled(component.hooks, trace'.calls)
          IN /\ IsRingOfPushed(effects', fqs', fibers', Wip, Len(effects))
             /\ Len(effects') - Len(effects) = Len(called)
             /\ \A i \in 1..Len(called) :
                  /\ effects'[Len(effects) + i].create = trace'.invocations
                  /\ effects'[Len(effects) + i].deps = trace'.ins[called[i]].deps
                  /\ (IF component.hooks[called[i]] = "effect"
                      THEN HookPassive ELSE HookLayout)
                       \subseteq effects'[Len(effects) + i].tag
     /\ RenderEndStep =>
          /\ effects' = effects
          /\ fqs' = fqs
          /\ fibers'[Wip].updateQueue = fibers[Wip].updateQueue]_vars

\* renderWithHooks has returned from a render of the mounted component whose
\* first invocation scheduled a render-phase update: the second invocation's
\* two effects are the list, the first invocation's two are not in it.
C33_Witness ==
  /\ pc = "rendered"
  /\ current # "none"
  /\ numberOfReRenders = 1
  /\ trace.passInvocations = 2
  /\ EffectList(World, Wip) = <<Len(effects) - 1, Len(effects)>>
  /\ effects[Len(effects) - 2].create = trace.invocations - 1
  /\ effects[Len(effects)].create = trace.invocations

\* The two lists agree at every index they both have.
DepsAgree(nextDeps, prevDeps) ==
  \A i \in 1..Len(nextDeps.list) :
    i <= Len(prevDeps.list) => nextDeps.list[i] = prevDeps.list[i]

\* An update render of the one effect hook has returned.
EffectUpdated ==
  /\ pc = "rendered"
  /\ current # "none"
  /\ DepsKind \in {"effect", "layoutEffect"}

\* The committed effect of the hook, and the effect the render pushed.
DepsPrevEffect == effects[DepsCommittedHook.memoizedState]
DepsPushedEffect == effects[Len(effects)]
DepsFiberFlags ==
  IF DepsKind = "effect" THEN UpdateEffect \cup PassiveEffect ELSE UpdateEffect

\* C34: an update render of an effect hook that has a committed effect.  With
\* a non-null dependency list equal to the committed one the effect pushed
\* has the hook's tag without HasEffect and the committed effect's destroy,
\* and the fiber gets no flag; with a null list or a differing one the effect
\* pushed has HasEffect and the committed effect's destroy, it is the hook's
\* memoizedState, and the fiber gets the effect's flags.
C34_UpdateEffectByDeps ==
  EffectUpdated =>
    /\ EffectList(World, Wip) = <<Len(effects)>>
    /\ Len(effects) > DepsCommittedHook.memoizedState
    /\ DepsPushedEffect.create = trace.invocations
    /\ DepsPushedEffect.deps = DepsNext
    /\ DepsPushedEffect.destroy = DepsPrevEffect.destroy
    /\ IF ~DepsNext.null /\ ~DepsPrevEffect.deps.null
          /\ DepsAgree(DepsNext, DepsPrevEffect.deps)
       THEN /\ DepsPushedEffect.tag = DepsHookFlags
            /\ fibers[Wip].flags = {}
       ELSE /\ DepsPushedEffect.tag = HookHasEffect \cup DepsHookFlags
            /\ fibers[Wip].memoizedState[1].memoizedState = Len(effects)
            /\ fibers[Wip].flags = DepsFiberFlags

\* An effect hook rendered again with the one dependency it was committed
\* with: the effect pushed carries the cleanup the commit stored and has no
\* HasEffect.
C34_Witness ==
  /\ EffectUpdated
  /\ DepsNext = Deps(<<"a">>)
  /\ DepsPrevEffect.deps = Deps(<<"a">>)
  /\ DepsPrevEffect.destroy # 0
  /\ DepsPushedEffect.destroy = DepsPrevEffect.destroy
  /\ ~(HookHasEffect \subseteq DepsPushedEffect.tag)

\* The length of the shorter of two lists.
Shorter(l, m) == IF Len(l) <= Len(m) THEN Len(l) ELSE Len(m)

\* C35: areHookInputsEqual(nextDeps, prevDeps) is false when prevDeps is null;
\* otherwise it is true exactly when the two lists hold the same value (NaN
\* being the same as NaN) at every index below the shorter length, whatever
\* either list holds beyond it.
C35_InputsEqualUpToShorter ==
  pc = "compared" =>
    children.values[1] =
      (/\ ~component.prevDeps.null
       /\ \A i \in 1..Shorter(component.nextDeps.list,
                               component.prevDeps.list) :
            component.nextDeps.list[i] = component.prevDeps.list[i])

\* Lists of different lengths that hold NaN at their one common index and
\* were found equal.
C35_Witness ==
  /\ pc = "compared"
  /\ component.nextDeps = Deps(<<NaN, "a">>)
  /\ component.prevDeps = Deps(<<NaN>>)
  /\ children.values[1] = TRUE

RECURSIVE WalkStateBefore(_, _)
WalkStateBefore(walk, i) ==
  IF i = 1 THEN walk.baseState
  ELSE IF isSubsetOfLanes(walk.lanes, walk.updates[i - 1].lane)
       THEN updateReducerApply(walk.reducer, WalkStateBefore(walk, i - 1),
                               walk.updates[i - 1])
       ELSE WalkStateBefore(walk, i - 1)

\* The updates of the walk whose cached eagerState the walk took.
EagerTaken(walk) ==
  {i \in 1..Len(walk.updates) :
     /\ isSubsetOfLanes(walk.lanes, walk.updates[i].lane)
     /\ walk.updates[i].eagerReducer = walk.reducer}

\* C37: every cached eagerState a walk of updateReducer takes is what this
\* render's reducer returns for the update's action and the state the walk
\* has accumulated before the update.
C37_EagerStateIsReducerResult ==
  \A i \in EagerTaken(trace.walk) :
    trace.walk.updates[i].eagerState
      = Reduce(trace.walk.reducer, WalkStateBefore(trace.walk, i),
               trace.walk.updates[i].action)

\* C37, for a component that has passed the same reducer to every render so
\* far: every cached eagerState a walk takes is the reducer's result for the
\* state accumulated before the update.
C37_EagerStateWithOneReducer ==
  Cardinality(trace.reducers) = 1 => C37_EagerStateIsReducerResult

\* After a discarded attempt, a walk has skipped the update of an eager
\* bail-out and taken the eagerState of the update behind it.
C37_Witness ==
  /\ pc = "returned"
  /\ trace.discarded
  /\ trace.eagerBailouts = 1
  /\ trace.reducers = {"R1"}
  /\ Len(trace.walk.updates) = 2
  /\ EagerTaken(trace.walk) = {2}
  /\ children.values[1] = trace.walk.updates[2].eagerState

\* The number of hook cells the claim gives each primitive.
CellsOf(kind) ==
  CASE kind \in {"context", "readContext", "debugValue"} -> 0
    [] kind \in {"transition", "deferredValue"} -> 2
    [] kind = "mutableSource" -> 4
    [] OTHER -> 1

\* The cells the first k primitives of the list consume.
RECURSIVE CellsUpTo(_, _)
CellsUpTo(hooks, k) ==
  IF k = 0 THEN 0 ELSE CellsUpTo(hooks, k - 1) + CellsOf(hooks[k])

StatusesOf(h) == [i \in 1..Len(h) |-> h[i].status]

\* The payload went Uninitialized, Pending, then Resolved or Rejected, as far
\* as it went: nothing follows a Resolved or Rejected payload.
LazyStatusOrder ==
  StatusesOf(lazyTrace.history) \in
    {<<Uninitialized>>, <<Uninitialized, Pending>>,
     <<Uninitialized, Pending, Resolved>>,
     <<Uninitialized, Pending, Rejected>>}

\* The last call returned the stored result if it left the payload Resolved
\* and threw the stored result otherwise.
LazyOutcome ==
  lazyTrace.calls > 0 =>
    /\ lazyTrace.last.value = lazyTrace.at.result
    /\ lazyTrace.last.threw = (lazyTrace.at.status # Resolved)
    /\ lazyTrace.at.status = Pending => lazyTrace.last.value = Thenable
    /\ lazyTrace.at.status = Rejected => lazyTrace.last.value \in LazyErrors

\* C39: over any number of calls of lazyInitializer on one payload and any
\* order of callback calls, the constructor is invoked at most once, the
\* status moves only Uninitialized, Pending, then Resolved or Rejected, a
\* Resolved or Rejected payload keeps its status and result, and a call
\* returns the stored result when the status is Resolved and otherwise
\* throws the stored result (the thenable while Pending, the error when
\* Rejected).
C39_LazyPayloadStateMachine ==
  /\ lazyTrace.ctorCalls <= 1
  /\ LazyStatusOrder
  /\ LazyOutcome

\* C39 for a constructor that has not thrown: the same, with the
\* constructor's call counted once it has returned a thenable.
C39_LazyPayloadWhenCtorReturns ==
  /\ LazyStatusOrder
  /\ lazyTrace.ctorCalls - lazyTrace.ctorThrows <= 1
  /\ lazyTrace.ctorThrows = 0 => C39_LazyPayloadStateMachine

\* lazyInitializer was called three times on a payload whose constructor
\* returned a thenable; the thenable called both callbacks, the fulfilment
\* first, and the last call returned the module's default export.
C39_Witness ==
  /\ lazyTrace.calls = MaxLazyCalls
  /\ lazyTrace.ctorCalls = 1
  /\ lazyTrace.ctorThrows = 0
  /\ lazyTrace.settles = MaxSettles
  /\ StatusesOf(lazyTrace.history) = <<Uninitialized, Pending, Resolved>>
  /\ payload = [status |-> Resolved, result |-> "C1"]
  /\ lazyTrace.last = [threw |-> FALSE, value |-> "C1"]

====
